---- MODULE Spec2Model ----
(***************************************************************************)
(* FlowAgility scraper (EventosProxBeta.py): the participant counter       *)
(* _count_participants_liveview, the readiness wait _wait_liveview_ready,  *)
(* the event loop of extract_detailed_info and the stage dispatch of main. *)
(* The loop body is also modelled with the fields of the records in full,  *)
(* as EventosProxBeta.py and extraerParticipantesEventosProxBeta.py write   *)
(* it (SpecInfo).  _clean is studied on its own (SpecClean), as are the     *)
(* event loop of extract_participants in                                   *)
(* extraerParticipantesEventosProxBeta.py (SpecParticipants) and the stage *)
(* dispatch of main in both scripts (SpecMain).                            *)
(*                                                                         *)
(* Text is a tuple of atoms: a digit "0".."9", a blank " ", or a whole     *)
(* word.  Regular expressions and substring tests are evaluated on such    *)
(* tuples atom by atom.                                                    *)
(***************************************************************************)
EXTENDS Integers, Sequences, FiniteSets, TLC

VARIABLES
    page,               \* DOM the driver currently shows
    plan,               \* which driver queries of the counter raise
    num_participants,   \* value returned by _count_participants_liveview
    via,                \* which return statement of the counter produced it
    scrolls,            \* scroll scripts executed by the last counter call
    pc,                 \* position of the program
    module,             \* args.module
    files,              \* OUT_DIR: content of the latest 01events_*.json, 02info written
    events,             \* batch loaded by extract_detailed_info
    i,                  \* index of the event in process (enumerate(events, 1))
    detailed_event,     \* record under construction
    info_processed,     \* local flag of the event in process
    detailed_events,    \* output batch
    success,            \* main's success flag
    exitCode,           \* sys.exit code (-1 while running)
    clock,              \* seconds elapsed, capped at ClockCap
    stageResult,        \* how extract_events and extract_detailed_info ended
    cur,                \* what happened to the event in process
    trace,              \* per appended record: what happened to its event
    ready,              \* value returned by the _wait_liveview_ready call under study
    ops,                \* driver calls issued by the last counter call, in order
    driver,             \* the browser of the stage function that is running
    script,             \* script whose main is running ("" outside main)
    clean_arg,          \* argument of the _clean call under study
    clean_result,       \* value returned by it
    all_participants    \* list accumulated by extract_participants

vars == <<page, plan, num_participants, via, scrolls, ops, pc, module, files, events, i,
          detailed_event, info_processed, detailed_events, success, exitCode,
          clock, stageResult, cur, trace, ready, driver, script, clean_arg,
          clean_result, all_participants>>

\* variables of the single-function studies and of the other script's stages
restVars == <<script, clean_arg, clean_result, all_participants>>

----------------------------------------------------------------------------
(* Bounds *)

MaxNodes == 2
MaxTables == 2
MaxEvents == 2

----------------------------------------------------------------------------
(* Text helpers *)

Digits == {"0", "1", "2", "3", "4", "5", "6", "7", "8", "9"}

Absent == <<"<absent>">>

DigitVal(c) ==
    CASE c = "0" -> 0 [] c = "1" -> 1 [] c = "2" -> 2 [] c = "3" -> 3
      [] c = "4" -> 4 [] c = "5" -> 5 [] c = "6" -> 6 [] c = "7" -> 7
      [] c = "8" -> 8 [] c = "9" -> 9

RECURSIVE ParseInt(_)
ParseInt(ds) ==
    IF ds = <<>> THEN 0
    ELSE 10 * ParseInt(SubSeq(ds, 1, Len(ds) - 1)) + DigitVal(ds[Len(ds)])

LowerAtom(a) ==
    CASE a = "Dorsal" -> "dorsal"
      [] a = "Guía" -> "guía"
      [] a = "GUIA" -> "guia"
      [] a = "Perro" -> "perro"
      [] a = "Nombre" -> "nombre"
      [] a = "Fecha" -> "fecha"
      [] a = "Hora" -> "hora"
      [] a = "Total:" -> "total:"
      [] a = "Participantes" -> "participantes"
      [] OTHER -> a

Lower(s) == [k \in 1..Len(s) |-> LowerAtom(s[k])]

\* end of the maximal run of digits of s that starts at position k (k-1 if none)
RECURSIVE RunEnd(_, _)
RunEnd(s, k) ==
    IF k <= Len(s) /\ s[k] \in Digits THEN RunEnd(s, k + 1) ELSE k - 1

\* first position at or after k that is not a blank
RECURSIVE SkipBlanks(_, _)
SkipBlanks(s, k) ==
    IF k <= Len(s) /\ s[k] = " " THEN SkipBlanks(s, k + 1) ELSE k

NoMatch == <<"<nomatch>">>

\* re.search(r"(\d{3,})", s): group 1 of the leftmost match, or NoMatch
RECURSIVE SearchDigits3(_, _)
SearchDigits3(s, k) ==
    IF k > Len(s) THEN NoMatch
    ELSE IF RunEnd(s, k) - k + 1 >= 3 THEN SubSeq(s, k, RunEnd(s, k))
    ELSE SearchDigits3(s, k + 1)

\* re.search(r"(\d+)\s*<word>s?", s): group 1 of the leftmost match, or NoMatch
RECURSIVE SearchNumWord(_, _, _)
SearchNumWord(s, words, k) ==
    IF k > Len(s) THEN NoMatch
    ELSE IF /\ s[k] \in Digits
            /\ SkipBlanks(s, RunEnd(s, k) + 1) <= Len(s)
            /\ s[SkipBlanks(s, RunEnd(s, k) + 1)] \in words
         THEN SubSeq(s, k, RunEnd(s, k))
    ELSE SearchNumWord(s, words, k + 1)

\* re.search(r"total:\s*(\d+)", s): group 1 of the leftmost match, or NoMatch
RECURSIVE SearchTotal(_, _)
SearchTotal(s, k) ==
    IF k > Len(s) THEN NoMatch
    ELSE IF /\ s[k] = "total:"
            /\ RunEnd(s, SkipBlanks(s, k + 1)) >= SkipBlanks(s, k + 1)
         THEN SubSeq(s, SkipBlanks(s, k + 1), RunEnd(s, SkipBlanks(s, k + 1)))
    ELSE SearchTotal(s, k + 1)

\* Python truthiness of an attribute value: None and "" are falsy
Truthy(v) == v # Absent /\ v # <<>>

HasAtom(s, a) == \E k \in 1..Len(s) : s[k] = a

----------------------------------------------------------------------------
(* _count_participants_liveview *)

\* An element of the DOM: the five attributes the booking selectors look at.
Elem(bid, dbid, click, dclick, id) ==
    [bid |-> bid, dbid |-> dbid, click |-> click, dclick |-> dclick, id |-> id]

booking_selectors == 1..5

\* variant: the data-phx-click selector written with = instead of *=
SelMatches_ExactDataClick(sel, el) ==
    CASE sel = 1 -> el.bid # Absent
      [] sel = 2 -> el.dbid # Absent
      [] sel = 3 -> el.click = <<"booking_details">>
      [] sel = 4 -> el.dclick = <<"booking_details">>
      [] sel = 5 -> el.id # Absent /\ Len(el.id) >= 1 /\ el.id[1] = "booking-"

\* CSS match of booking_selectors[sel] against element el
SelMatches(sel, el) ==
    CASE sel = 1 -> el.bid # Absent
      [] sel = 2 -> el.dbid # Absent
      [] sel = 3 -> el.click = <<"booking_details">>
      [] sel = 4 -> el.dclick # Absent /\ HasAtom(el.dclick, "booking_details")
      [] sel = 5 -> el.id # Absent /\ Len(el.id) >= 1 /\ el.id[1] = "booking-"

\* bid = phx-value-booking_id or data-phx-value-booking_id or id or ""
ExtractBid(el) ==
    IF Truthy(el.bid) THEN el.bid
    ELSE IF Truthy(el.dbid) THEN el.dbid
    ELSE IF Truthy(el.id) THEN el.id
    ELSE <<>>

\* identifiers the loop body adds for the nodes one selector returns
IdsOfSelector(pg, sel) ==
    { SearchDigits3(ExtractBid(pg.nodes[k]), 1) :
        k \in { n \in 1..Len(pg.nodes) : SelMatches(sel, pg.nodes[n]) } }
    \ {NoMatch}

\* variant: one try around the whole selector loop: the first query that raises
\* ends the scan
BookingIds_StopsAtFirstFailure(pg, pl) ==
    UNION { IdsOfSelector(pg, sel) :
              sel \in { q \in booking_selectors : \A f \in pl.sels : q < f } }

\* variant: a list of the matches instead of a set of identifiers
BookingIds_NoDedup(pg, pl) ==
    { <<sel, k>> \in (booking_selectors \ pl.sels) \X (1..Len(pg.nodes)) :
        /\ SelMatches(sel, pg.nodes[k])
        /\ SearchDigits3(ExtractBid(pg.nodes[k]), 1) # NoMatch }

\* booking_ids after the selector loop; a selector whose query raises adds nothing
BookingIds(pg, pl) ==
    UNION { IdsOfSelector(pg, sel) : sel \in booking_selectors \ pl.sels }

NoCount == -1

HeaderKeywords == {"dorsal", "guía", "guia", "perro", "nombre"}

HasHeaderKeyword(header) ==
    \E k \in HeaderKeywords : HasAtom(Lower(header), k)

\* variant: a table without header keyword counts whatever its size
RECURSIVE TableScan_NoRange(_, _)
TableScan_NoRange(tables, k) ==
    IF k > Len(tables) THEN NoCount
    ELSE IF tables[k].rows > 1 /\ HasHeaderKeyword(tables[k].header)
         THEN IF tables[k].rows - 1 > 0 THEN tables[k].rows - 1 ELSE 0
    ELSE IF tables[k].rows > 1
         THEN tables[k].rows - 1
    ELSE TableScan_NoRange(tables, k + 1)

\* variant: the header row is counted too (return len(rows))
RECURSIVE TableScan_CountsHeader(_, _)
TableScan_CountsHeader(tables, k) ==
    IF k > Len(tables) THEN NoCount
    ELSE IF tables[k].rows > 1 /\ HasHeaderKeyword(tables[k].header)
         THEN tables[k].rows
    ELSE IF tables[k].rows > 1 /\ 5 <= tables[k].rows /\ tables[k].rows <= 500
         THEN tables[k].rows - 1
    ELSE TableScan_CountsHeader(tables, k + 1)

\* the loop over the tables: the first table that returns decides
RECURSIVE TableScan(_, _)
TableScan(tables, k) ==
    IF k > Len(tables) THEN NoCount
    ELSE IF tables[k].rows > 1 /\ HasHeaderKeyword(tables[k].header)
         THEN IF tables[k].rows - 1 > 0 THEN tables[k].rows - 1 ELSE 0
    ELSE IF tables[k].rows > 1 /\ 5 <= tables[k].rows /\ tables[k].rows <= 500
         THEN tables[k].rows - 1
    ELSE TableScan(tables, k + 1)

\* variant: the table fallback without its except clause: the error escapes
TableFallback_ErrorPropagates(pg, pl) ==
    IF pl.table THEN NoCount - 1 ELSE TableScan(pg.tables, 1)

TableFallback(pg, pl) ==
    IF pl.table THEN NoCount ELSE TableScan(pg.tables, 1)

\* the four patterns, in the order of the list literal
PatternMatch(pat, txt) ==
    CASE pat = 1 -> SearchNumWord(txt, {"participante", "participantes"}, 1)
      [] pat = 2 -> SearchNumWord(txt, {"inscrito", "inscritos"}, 1)
      [] pat = 3 -> SearchNumWord(txt, {"competidor", "competidores"}, 1)
      [] pat = 4 -> SearchTotal(txt, 1)

\* variant: an out-of-bound match ends the search instead of trying the next pattern
RECURSIVE TextScan_StopsAtFirstMatch(_, _)
TextScan_StopsAtFirstMatch(txt, pat) ==
    IF pat > 4 THEN NoCount
    ELSE IF PatternMatch(pat, txt) # NoMatch
         THEN IF ParseInt(PatternMatch(pat, txt)) <= 2000
              THEN ParseInt(PatternMatch(pat, txt)) ELSE NoCount
    ELSE TextScan_StopsAtFirstMatch(txt, pat + 1)

RECURSIVE TextScan(_, _)
TextScan(txt, pat) ==
    IF pat > 4 THEN NoCount
    ELSE IF /\ PatternMatch(pat, txt) # NoMatch
            /\ 0 <= ParseInt(PatternMatch(pat, txt))
            /\ ParseInt(PatternMatch(pat, txt)) <= 2000
         THEN ParseInt(PatternMatch(pat, txt))
    ELSE TextScan(txt, pat + 1)

TextFallback(pg, pl) ==
    IF pl.text THEN NoCount ELSE TextScan(Lower(pg.body), 1)

\* variant: the table fallback consulted before the identifier set
CountParticipantsLiveview_TableFirst(pg, pl) ==
    IF TableFallback(pg, pl) # NoCount
        THEN [n |-> TableFallback(pg, pl), via |-> "table"]
    ELSE IF BookingIds(pg, pl) # {}
        THEN [n |-> Cardinality(BookingIds(pg, pl)), via |-> "ids"]
    ELSE IF TextFallback(pg, pl) # NoCount
        THEN [n |-> TextFallback(pg, pl), via |-> "text"]
    ELSE [n |-> 0, via |-> "none"]

\* the cascade: [n |-> returned value, via |-> the return statement taken]
CountParticipantsLiveview(pg, pl) ==
    IF BookingIds(pg, pl) # {}
        THEN [n |-> Cardinality(BookingIds(pg, pl)), via |-> "ids"]
    ELSE IF TableFallback(pg, pl) # NoCount
        THEN [n |-> TableFallback(pg, pl), via |-> "table"]
    ELSE IF TextFallback(pg, pl) # NoCount
        THEN [n |-> TextFallback(pg, pl), via |-> "text"]
    ELSE [n |-> 0, via |-> "none"]

\* the two soft scrolls; the first script that raises ends the loop
SoftScrolls(pl) == IF pl.scroll THEN 0 ELSE 2

\* variant: the soft scrolls are made after the selector loop
CounterOps_ScrollsAfterScan(pg, pl) ==
    <<"wait">>
    \o [k \in 1..Cardinality(booking_selectors) |-> "select"]
    \o (IF pl.scroll THEN <<"scroll">> ELSE <<"scroll", "scroll">>)
    \o (IF BookingIds(pg, pl) # {} THEN <<>>
        ELSE IF TableFallback(pg, pl) # NoCount THEN <<"tables">>
        ELSE <<"tables", "body">>)

\* the driver calls of one counter call, in the order they are issued: the
\* readiness wait, the scroll scripts (the first that raises ends the loop),
\* one find_elements per selector, then the queries of the fallbacks reached
CounterOps(pg, pl) ==
    <<"wait">>
    \o (IF pl.scroll THEN <<"scroll">> ELSE <<"scroll", "scroll">>)
    \o [k \in 1..Cardinality(booking_selectors) |-> "select"]
    \o (IF BookingIds(pg, pl) # {} THEN <<>>
        ELSE IF TableFallback(pg, pl) # NoCount THEN <<"tables">>
        ELSE <<"tables", "body">>)

----------------------------------------------------------------------------
(* Pages and failure plans the counter is applied to *)

BookingDetails == <<"booking_details">>

ElementPalette ==
    { Elem(<<"1", "2", "3", "4", "5">>, Absent, Absent, Absent, Absent),
      Elem(Absent, <<"1", "2", "3", "4", "5">>, Absent, Absent, Absent),
      Elem(Absent, Absent, BookingDetails, Absent, <<"booking-", "6", "7", "8">>),
      Elem(Absent, Absent, Absent, <<"show", "booking_details">>, <<"row-", "6", "7", "8">>),
      Elem(Absent, Absent, BookingDetails, Absent, Absent),
      Elem(Absent, Absent, Absent, Absent, <<"booking-", "1", "2">>),
      Elem(<<>>, Absent, Absent, Absent, <<"booking-", "9", "0", "0", "1">>),
      Elem(Absent, Absent, Absent, Absent, <<"header">>) }

Table(rows, header) == [rows |-> rows, header |-> header]

TablePalette ==
    { Table(6, <<"Dorsal", " ", "Guía", " ", "Perro">>),
      Table(1, <<"Nombre">>),
      Table(3, <<"Fecha", " ", "Hora">>),
      Table(5, <<"Fecha">>),
      Table(501, <<"Fecha">>) }

BodyPalette ==
    { <<>>,
      <<"Total:", " ", "1", "2", " ", "inscritos">>,
      <<"9", "9", "9", "9", " ", "participantes", " ", "3", "0", " ", "participantes">>,
      <<"total:", " ", "1", "2", " ", "5", " ", "inscritos">>,
      <<"3", "0", "0", "0", " ", "participantes", " ", "total:", " ", "4", "0">>,
      <<"0", " ", "participantes">>,
      <<"no", " ", "hay", " ", "participantes">> }

Plan(sels, table, text, scroll) ==
    [sels |-> sels, table |-> table, text |-> text, scroll |-> scroll]

NoFailure == Plan({}, FALSE, FALSE, FALSE)
DriverDead == Plan(booking_selectors, TRUE, TRUE, TRUE)

PlanPalette == { NoFailure, Plan({1, 5}, FALSE, FALSE, TRUE), Plan({}, TRUE, TRUE, FALSE) }

SeqsUpTo(S, n) == UNION { [1..k -> S] : k \in 0..n }

Page(url, htmlClass, phxRoot, nodes, tables, body) ==
    [url |-> url, htmlClass |-> htmlClass, phxRoot |-> phxRoot,
     nodes |-> nodes, tables |-> tables, body |-> body]

Connected == <<"phx-connected">>

BlankPage == Page("blank", Absent, FALSE, <<>>, <<>>, <<>>)

CounterPages ==
    { Page("participants", Connected, TRUE, ns, ts, b) :
        ns \in SeqsUpTo(ElementPalette, MaxNodes),
        ts \in SeqsUpTo(TablePalette, MaxTables),
        b \in BodyPalette }

----------------------------------------------------------------------------
(* _wait_liveview_ready and the time the calls take.  clock is a lower     *)
(* bound of the seconds elapsed: random pauses count with their minimum.   *)

HardTimeout == 25
ClockCap == 121

Min(a, b) == IF a < b THEN a ELSE b

Tick(t, dt) == Min(t + dt, ClockCap)

\* variant: an empty-state text counts as ready, without the hydration marker
WaitLiveviewReady_EmptyTextIsReady(pg) ==
    IF HasAtom(Lower(pg.body), "hay") THEN [ok |-> TRUE, elapsed |-> 1]
    ELSE IF pg.htmlClass = Absent THEN [ok |-> FALSE, elapsed |-> 0]
    ELSE IF HasAtom(pg.htmlClass, "phx-connected") \/ pg.phxRoot
         THEN [ok |-> TRUE, elapsed |-> 1]
    ELSE [ok |-> FALSE, elapsed |-> HardTimeout]

\* [ok |-> value returned, elapsed |-> seconds spent]:
\* no class attribute: "phx-connected" in None raises, caught, False at once;
\* class or [data-phx-root] satisfied: 1 s extra sleep, True;
\* otherwise the wait polls until hard_timeout and returns False.
WaitLiveviewReady(pg) ==
    IF pg.htmlClass = Absent THEN [ok |-> FALSE, elapsed |-> 0]
    ELSE IF HasAtom(pg.htmlClass, "phx-connected") \/ pg.phxRoot
         THEN [ok |-> TRUE, elapsed |-> 1]
    ELSE [ok |-> FALSE, elapsed |-> HardTimeout]

\* a per-event budget in seconds, as the design describes one (the code reads none)
EventBudget == 60

\* variant: the wait is clamped to what is left of the per-event budget
WaitSeconds_ClampedToEventBudget(pg) ==
    Min(WaitLiveviewReady(pg).elapsed,
        IF clock - cur.startedAt >= EventBudget THEN 0
        ELSE EventBudget - (clock - cur.startedAt))

\* seconds a call _wait_liveview_ready(driver, hard_timeout=25) takes on pg
WaitSeconds(pg) == WaitLiveviewReady(pg).elapsed

\* 1 when the call on pg runs until hard_timeout, else 0
RunsToTimeout(pg) == IF WaitLiveviewReady(pg).elapsed = HardTimeout THEN 1 ELSE 0

\* seconds one call of _count_participants_liveview takes at least
CounterElapsed(pg, pl) ==
    WaitSeconds(pg) + (IF SoftScrolls(pl) > 0 THEN 1 ELSE 0)

----------------------------------------------------------------------------
(* Records of extract_detailed_info *)

Links(valid, links) == [valid |-> valid, links |-> links]

\* enlaces of a stored event: a dict with any of the two links, or null
EnlacesKinds ==
    { Links(TRUE, ls) : ls \in SUBSET {"info", "participantes"} }
    \cup { Links(FALSE, {}) }

Batches ==
    UNION { { [k \in 1..n |-> [id |-> k, enlaces |-> f[k]]] : f \in [1..n -> EnlacesKinds] } :
            n \in 0..MaxEvents }

\* OUT_DIR: whether a 01events_<date>.json exists and what it holds, and
\* whether 02info_<date>.json was written
Files(events01, stored, info02) ==
    [events01 |-> events01, stored |-> stored, info02 |-> info02]

NoFiles == Files(FALSE, <<>>, FALSE)

Status(kind, n) == [kind |-> kind, n |-> n]

NoDisponible == Status("No disponible", 0)
SinParticipantes == Status("Sin participantes", 0)
ErrorStatus == Status("Error", 0)
NParticipantes(n) == Status("participantes", n)

NoEvent == [id |-> 0, enlaces |-> Links(FALSE, {}), numero_participantes |-> 0,
            participantes_info |-> NoDisponible]

\* the browser: whether one is open, how many were created and how many quit
Driver(open, created, quits) == [open |-> open, created |-> created, quits |-> quits]

NoDriver == Driver(FALSE, 0, 0)

\* what happened to the event in process (not program state)
NoCur == [infoFailed |-> FALSE, partFailed |-> FALSE, outerFailed |-> FALSE,
          navs |-> 0, relogins |-> 0, reloginFailed |-> FALSE, counted |-> 0,
          countedOnLogin |-> FALSE, counterFailed |-> FALSE,
          waitTimedOut |-> FALSE, registered |-> -1, startedAt |-> 0,
          infoNavs |-> 0, waits |-> 0, waited |-> 0, timeouts |-> 0]

----------------------------------------------------------------------------
(* Pages the site serves for a participants link, with the number of       *)
(* participants really registered for the event.                           *)

Bid12345 == Elem(<<"1", "2", "3", "4", "5">>, Absent, Absent, Absent, Absent)
DataBid12345 == Elem(Absent, <<"1", "2", "3", "4", "5">>, Absent, Absent, Absent)
Button678 == Elem(Absent, Absent, BookingDetails, Absent, <<"booking-", "6", "7", "8">>)

LoginPage == Page("login", <<"h-full">>, FALSE, <<>>, <<>>, <<"iniciar", " ", "sesión">>)

InfoPage == Page("info", <<"h-full">>, FALSE, <<>>, <<>>, <<>>)

Served(dom, registered) == [dom |-> dom, registered |-> registered]

ParticipantPages ==
    { Served(Page("participants", Connected, TRUE,
                  <<Bid12345, DataBid12345, Button678>>, <<>>, <<>>), 2),
      Served(Page("participants", Connected, TRUE, <<>>, <<>>,
                  <<"no", " ", "hay", " ", "participantes">>), 0),
      Served(Page("participants", <<"h-full">>, FALSE, <<Bid12345>>, <<>>, <<>>), 1),
      Served(Page("participants", <<"h-full">>, FALSE, <<>>, <<>>, <<>>), 0) }

\* a navigation to a participants link shows one of these: the list, or the
\* login form when the session has expired
NavigationResults == ParticipantPages \cup { Served(LoginPage, 0) }

----------------------------------------------------------------------------
(* The counter applied to one page *)

orchVars == <<module, files, events, i, detailed_event, info_processed,
              detailed_events, success, exitCode, stageResult, cur, trace, ready,
              restVars, driver>>

NoStage == [events |-> "", info |-> ""]

InitCount ==
    /\ page \in CounterPages
    /\ plan \in PlanPalette
    /\ num_participants = -1
    /\ via = ""
    /\ scrolls = 0
    /\ pc = "count"
    /\ module = "none"
    /\ files = NoFiles
    /\ events = <<>>
    /\ i = 0
    /\ detailed_event = NoEvent
    /\ info_processed = FALSE
    /\ detailed_events = <<>>
    /\ success = TRUE
    /\ exitCode = -1
    /\ clock = 0
    /\ stageResult = NoStage
    /\ cur = NoCur
    /\ trace = <<>>
    /\ ready = FALSE
    /\ ops = <<>>
    /\ driver = NoDriver
    /\ script = ""
    /\ clean_arg = <<>>
    /\ clean_result = <<>>
    /\ all_participants = <<>>

\* one call _count_participants_liveview(driver) on the page shown
CountCall ==
    /\ pc = "count"
    /\ num_participants' = CountParticipantsLiveview(page, plan).n
    /\ via' = CountParticipantsLiveview(page, plan).via
    /\ scrolls' = SoftScrolls(plan)
    /\ ops' = CounterOps(page, plan)
    /\ clock' = Tick(clock, CounterElapsed(page, plan))
    /\ pc' = "counted"
    /\ UNCHANGED <<page, plan>>
    /\ UNCHANGED orchVars

NextCount == CountCall

SpecCount == InitCount /\ [][NextCount]_vars

----------------------------------------------------------------------------
(* _wait_liveview_ready applied to one page.  htmlClass is what             *)
(* get_attribute("class") answers for the html element: None (Absent), the *)
(* empty string, or a list of class names.                                  *)

ClassPalette ==
    { Absent, <<>>, <<"h-full">>, Connected, <<"h-full", "phx-connected">> }

WaitPages ==
    { Page("participants", c, r, ns, <<>>, b) :
        c \in ClassPalette,
        r \in BOOLEAN,
        ns \in { <<>>, <<Bid12345>> },
        b \in BodyPalette }

InitWait ==
    /\ page \in WaitPages
    /\ plan = NoFailure
    /\ num_participants = -1
    /\ via = ""
    /\ scrolls = 0
    /\ pc = "wait"
    /\ module = "none"
    /\ files = NoFiles
    /\ events = <<>>
    /\ i = 0
    /\ detailed_event = NoEvent
    /\ info_processed = FALSE
    /\ detailed_events = <<>>
    /\ success = TRUE
    /\ exitCode = -1
    /\ clock = 0
    /\ stageResult = NoStage
    /\ cur = NoCur
    /\ trace = <<>>
    /\ ready = FALSE
    /\ ops = <<>>
    /\ driver = NoDriver
    /\ script = ""
    /\ clean_arg = <<>>
    /\ clean_result = <<>>
    /\ all_participants = <<>>

\* one call _wait_liveview_ready(driver, hard_timeout=25) on the page shown
WaitCall ==
    /\ pc = "wait"
    /\ ready' = WaitLiveviewReady(page).ok
    /\ clock' = Tick(clock, WaitSeconds(page))
    /\ pc' = "waited"
    /\ UNCHANGED <<page, plan, num_participants, via, scrolls, ops, module, files, events,
                   i, detailed_event, info_processed, detailed_events, success,
                   exitCode, stageResult, cur, trace, restVars, driver>>

NextWait == WaitCall

SpecWait == InitWait /\ [][NextWait]_vars

----------------------------------------------------------------------------
(* main, extract_events and extract_detailed_info.  Stored events are      *)
(* JSON objects; a field of an object may be null.                         *)

Modules == {"events", "info", "all"}

\* batches extract_events can write: enlaces is always a dict there
DiscoveredBatches == { b \in Batches : \A k \in 1..Len(b) : b[k].enlaces.valid }

Init ==
    /\ page = BlankPage
    /\ plan = NoFailure
    /\ num_participants = -1
    /\ via = ""
    /\ scrolls = 0
    /\ pc = "main"
    /\ module \in Modules
    /\ files \in { NoFiles } \cup { Files(TRUE, b, FALSE) : b \in Batches }
    /\ events = <<>>
    /\ i = 0
    /\ detailed_event = NoEvent
    /\ info_processed = FALSE
    /\ detailed_events = <<>>
    /\ success = TRUE
    /\ exitCode = -1
    /\ clock = 0
    /\ stageResult = NoStage
    /\ cur = NoCur
    /\ trace = <<>>
    /\ ready = FALSE
    /\ ops = <<>>
    /\ driver = NoDriver
    /\ script = "EventosProxBeta.py"
    /\ clean_arg = <<>>
    /\ clean_result = <<>>
    /\ all_participants = <<>>

driverVars == <<page, plan, num_participants, via, scrolls, ops>>
loopVars == <<events, i, detailed_event, info_processed, detailed_events, cur, trace>>

\* main up to the first stage: _clean_output_directory removes every file but
\* the two kept names, or stops at the first error it meets
MainStart ==
    /\ pc = "main"
    /\ \E cleaned \in BOOLEAN : files' = IF cleaned THEN NoFiles ELSE files
    /\ success' = TRUE
    /\ pc' = IF module \in {"events", "all"} THEN "extract_events" ELSE "extract_detailed_info"
    /\ UNCHANGED <<driverVars, loopVars, module, ready, restVars, driver, exitCode, clock, stageResult>>

\* extract_events and main's test of its result
ExtractEvents ==
    /\ pc = "extract_events"
    /\ \E outcome \in {"driver", "login", "error", "ok"}, evs \in DiscoveredBatches :
         /\ stageResult' = [stageResult EXCEPT !.events = outcome]
         /\ files' = IF outcome = "ok" THEN Files(TRUE, evs, files.info02) ELSE files
         /\ success' = (outcome = "ok" /\ evs # <<>>)
         /\ clock' = IF outcome = "driver" THEN clock ELSE Tick(clock, 3)
         /\ driver' = IF outcome = "driver" THEN driver
                       ELSE Driver(FALSE, driver.created + 1, driver.quits + 1)
         /\ pc' = IF module = "all" /\ outcome = "ok" /\ evs # <<>>
                  THEN "extract_detailed_info" ELSE "main_end"
    /\ UNCHANGED <<driverVars, loopVars, module, ready, restVars, exitCode>>

\* extract_detailed_info up to the event loop
ExtractDetailedInfoStart ==
    /\ pc = "extract_detailed_info"
    /\ IF ~files.events01
       THEN /\ stageResult' = [stageResult EXCEPT !.info = "nofile"]
            /\ pc' = "main_end"
            /\ UNCHANGED <<events, i, detailed_events, success, clock, driver>>
       ELSE \E outcome \in {"load", "driver", "login", "ok"} :
            /\ stageResult' = [stageResult EXCEPT !.info = IF outcome = "ok" THEN "" ELSE outcome]
            /\ success' = IF outcome = "load" THEN FALSE ELSE success
            /\ events' = IF outcome = "load" THEN events ELSE files.stored
            /\ i' = IF outcome = "ok" THEN 1 ELSE i
            /\ detailed_events' = <<>>
            /\ clock' = IF outcome \in {"login", "ok"} THEN Tick(clock, 3) ELSE clock
            /\ driver' = CASE outcome = "ok" -> Driver(TRUE, driver.created + 1, driver.quits)
                            [] outcome = "login" ->
                                 Driver(FALSE, driver.created + 1, driver.quits + 1)
                            [] OTHER -> driver
            /\ pc' = IF outcome = "ok" THEN "loop" ELSE "main_end"
    /\ UNCHANGED <<driverVars, module, ready, restVars, files, detailed_event, info_processed,
                   exitCode, cur, trace>>

\* variant: the handler of the event loop forgets the count
Record_WithoutCount(ev, n, st, processed) ==
    [id |-> ev.id, enlaces |-> ev.enlaces,
     participantes_info |-> st, timestamp_extraccion |-> TRUE,
     procesado_info |-> processed]

Record(ev, n, st, processed) ==
    [id |-> ev.id, enlaces |-> ev.enlaces, numero_participantes |-> n,
     participantes_info |-> st, timestamp_extraccion |-> TRUE,
     procesado_info |-> processed]

\* top of the loop body: the record is initialised; a null enlaces raises at the
\* first membership test and the outer handler appends the stored event
EventStart ==
    /\ pc = "loop"
    /\ i <= Len(events)
    /\ IF ~events[i].enlaces.valid
       THEN /\ detailed_events' = Append(detailed_events,
                                         Record(events[i], 0, ErrorStatus, FALSE))
            /\ trace' = Append(trace, [NoCur EXCEPT !.outerFailed = TRUE,
                                                    !.startedAt = clock])
            /\ i' = i + 1
            /\ cur' = NoCur
            /\ pc' = "loop"
       ELSE /\ cur' = [NoCur EXCEPT !.startedAt = clock]
            /\ pc' = "info"
            /\ UNCHANGED <<detailed_events, trace, i>>
    /\ detailed_event' = [id |-> events[i].id, enlaces |-> events[i].enlaces,
                          numero_participantes |-> 0,
                          participantes_info |-> NoDisponible]
    /\ info_processed' = FALSE
    /\ UNCHANGED <<driverVars, module, ready, restVars, driver, files, events, success, exitCode, clock,
                   stageResult>>

\* variant: an error on the info page ends the processing of the event
InfoFetch_FailureSkipsParticipants ==
    /\ pc = "info"
    /\ IF "info" \in events[i].enlaces.links
       THEN \E ok \in BOOLEAN :
            /\ info_processed' = ok
            /\ page' = IF ok THEN InfoPage ELSE page
            /\ clock' = IF ok THEN Tick(clock, 2) ELSE clock
            /\ cur' = [cur EXCEPT !.infoFailed = ~ok, !.infoNavs = @ + 1]
            /\ pc' = IF ok THEN "participants" ELSE "finish"
       ELSE /\ pc' = "participants"
            /\ UNCHANGED <<info_processed, page, clock, cur>>
    /\ UNCHANGED <<plan, num_participants, via, scrolls, ops, module, ready, restVars, driver, files, events, i,
                   detailed_event, detailed_events, success, exitCode,
                   stageResult, trace>>

\* the info page: fetched and parsed, or an exception logged
InfoFetch ==
    /\ pc = "info"
    /\ IF "info" \in events[i].enlaces.links
       THEN \E ok \in BOOLEAN :
            /\ info_processed' = ok
            /\ page' = IF ok THEN InfoPage ELSE page
            /\ clock' = IF ok THEN Tick(clock, 2) ELSE clock
            /\ cur' = [cur EXCEPT !.infoFailed = ~ok, !.infoNavs = @ + 1]
       ELSE UNCHANGED <<info_processed, page, clock, cur>>
    /\ pc' = "participants"
    /\ UNCHANGED <<plan, num_participants, via, scrolls, ops, module, ready, restVars, driver, files, events, i,
                   detailed_event, detailed_events, success, exitCode,
                   stageResult, trace>>

\* variant: the handler of the participants block only logs
ParticipantsError_OnlyLogs == detailed_event

ParticipantsError ==
    [detailed_event EXCEPT !.numero_participantes = 0,
                           !.participantes_info = ErrorStatus]

\* driver.get(participants_url), the wait for body and _wait_liveview_ready
Arrive(sv) ==
    /\ page' = sv.dom
    /\ clock' = Tick(clock, WaitSeconds(sv.dom))
    /\ cur' = [cur EXCEPT !.navs = @ + 1,
                          !.registered = sv.registered,
                          !.waitTimedOut = ~WaitLiveviewReady(sv.dom).ok,
                          !.waits = @ + 1,
                          !.waited = @ + WaitSeconds(sv.dom),
                          !.timeouts = @ + RunsToTimeout(sv.dom)]
    /\ UNCHANGED detailed_event

NavigationRaises ==
    /\ detailed_event' = ParticipantsError
    /\ cur' = [cur EXCEPT !.navs = @ + 1, !.partFailed = TRUE]
    /\ pc' = "finish"
    /\ UNCHANGED <<page, clock>>

ParticipantsNavigate ==
    /\ pc = "participants"
    /\ IF "participantes" \notin events[i].enlaces.links
       THEN /\ pc' = "finish"
            /\ UNCHANGED <<page, clock, cur, detailed_event>>
       ELSE \/ NavigationRaises
            \/ \E sv \in NavigationResults :
                 /\ Arrive(sv)
                 /\ pc' = IF sv.dom.url = "login" THEN "relogin" ELSE "count"
    /\ UNCHANGED <<plan, num_participants, via, scrolls, ops, module, ready, restVars, driver, files, events, i,
                   info_processed, detailed_events, success, exitCode,
                   stageResult, trace>>

\* variant: after a successful re-login the participants page is not loaded again
Relogin_NoSecondNavigation ==
    /\ pc = "relogin"
    /\ \E ok \in BOOLEAN :
         /\ cur' = [cur EXCEPT !.relogins = @ + 1, !.reloginFailed = ~ok]
         /\ clock' = IF ok THEN Tick(clock, 3) ELSE clock
    /\ pc' = "count"
    /\ UNCHANGED <<page, detailed_event>>
    /\ UNCHANGED <<plan, num_participants, via, scrolls, ops, module, ready, restVars, driver, files, events, i,
                   info_processed, detailed_events, success, exitCode,
                   stageResult, trace>>

\* "/user/login" in driver.current_url: _login once; on success navigate again
Relogin ==
    /\ pc = "relogin"
    /\ \/ /\ cur' = [cur EXCEPT !.relogins = @ + 1, !.reloginFailed = TRUE]
          /\ pc' = "count"
          /\ UNCHANGED <<page, clock, detailed_event>>
       \/ /\ detailed_event' = ParticipantsError
          /\ cur' = [cur EXCEPT !.relogins = @ + 1, !.navs = @ + 1, !.partFailed = TRUE]
          /\ clock' = Tick(clock, 3)
          /\ pc' = "finish"
          /\ UNCHANGED page
       \/ \E sv \in NavigationResults :
          /\ page' = sv.dom
          /\ clock' = Tick(clock, 3 + WaitSeconds(sv.dom))
          /\ cur' = [cur EXCEPT !.relogins = @ + 1,
                                !.navs = @ + 1,
                                !.registered = sv.registered,
                                !.waitTimedOut = ~WaitLiveviewReady(sv.dom).ok,
                                !.waits = @ + 1,
                                !.waited = @ + WaitSeconds(sv.dom),
                                !.timeouts = @ + RunsToTimeout(sv.dom)]
          /\ pc' = "count"
          /\ UNCHANGED detailed_event
    /\ UNCHANGED <<plan, num_participants, via, scrolls, ops, module, ready, restVars, driver, files, events, i,
                   info_processed, detailed_events, success, exitCode,
                   stageResult, trace>>

\* variant: the test on the count is >= 0, so that 0 is reported as a count
CountParticipants_ZeroIsACount ==
    /\ pc = "count"
    /\ \E pl \in {NoFailure, DriverDead} :
         /\ plan' = pl
         /\ num_participants' = CountParticipantsLiveview(page, pl).n
         /\ via' = CountParticipantsLiveview(page, pl).via
         /\ scrolls' = SoftScrolls(pl)
         /\ ops' = CounterOps(page, pl)
         /\ clock' = Tick(clock, CounterElapsed(page, pl))
         /\ detailed_event' =
              IF CountParticipantsLiveview(page, pl).n >= 0
              THEN [detailed_event EXCEPT
                      !.numero_participantes = CountParticipantsLiveview(page, pl).n,
                      !.participantes_info =
                          NParticipantes(CountParticipantsLiveview(page, pl).n)]
              ELSE [detailed_event EXCEPT !.numero_participantes = 0,
                                          !.participantes_info = SinParticipantes]
         /\ cur' = [cur EXCEPT !.counted = @ + 1,
                               !.countedOnLogin = (page.url = "login"),
                               !.counterFailed = (pl # NoFailure),
                               !.waits = @ + 1,
                               !.waited = @ + WaitSeconds(page),
                               !.timeouts = @ + RunsToTimeout(page)]
    /\ pc' = "finish"
    /\ UNCHANGED <<page, module, ready, restVars, driver, files, events, i, info_processed, detailed_events,
                   success, exitCode, stageResult, trace>>

\* variant: a page whose readiness wait returned False is not counted
CountParticipants_SkipsUnreadyPage ==
    /\ pc = "count"
    /\ \E pl \in {NoFailure, DriverDead} :
         /\ plan' = pl
         /\ num_participants' = IF cur.waitTimedOut THEN 0
                                ELSE CountParticipantsLiveview(page, pl).n
         /\ via' = CountParticipantsLiveview(page, pl).via
         /\ scrolls' = SoftScrolls(pl)
         /\ ops' = CounterOps(page, pl)
         /\ clock' = Tick(clock, CounterElapsed(page, pl))
         /\ detailed_event' =
              IF ~cur.waitTimedOut /\ CountParticipantsLiveview(page, pl).n > 0
              THEN [detailed_event EXCEPT
                      !.numero_participantes = CountParticipantsLiveview(page, pl).n,
                      !.participantes_info =
                          NParticipantes(CountParticipantsLiveview(page, pl).n)]
              ELSE [detailed_event EXCEPT !.numero_participantes = 0,
                                          !.participantes_info = SinParticipantes]
         /\ cur' = [cur EXCEPT !.counted = @ + 1,
                               !.countedOnLogin = (page.url = "login"),
                               !.counterFailed = (pl # NoFailure),
                               !.waits = @ + 1,
                               !.waited = @ + WaitSeconds(page),
                               !.timeouts = @ + RunsToTimeout(page)]
    /\ pc' = "finish"
    /\ UNCHANGED <<page, module, ready, restVars, driver, files, events, i, info_processed, detailed_events,
                   success, exitCode, stageResult, trace>>

\* variant: a count of 0 leaves the record as initialised
CountParticipants_KeepsInitialStatus ==
    /\ pc = "count"
    /\ \E pl \in {NoFailure, DriverDead} :
         /\ plan' = pl
         /\ num_participants' = CountParticipantsLiveview(page, pl).n
         /\ via' = CountParticipantsLiveview(page, pl).via
         /\ scrolls' = SoftScrolls(pl)
         /\ ops' = CounterOps(page, pl)
         /\ clock' = Tick(clock, CounterElapsed(page, pl))
         /\ detailed_event' =
              IF CountParticipantsLiveview(page, pl).n > 0
              THEN [detailed_event EXCEPT
                      !.numero_participantes = CountParticipantsLiveview(page, pl).n,
                      !.participantes_info =
                          NParticipantes(CountParticipantsLiveview(page, pl).n)]
              ELSE detailed_event
         /\ cur' = [cur EXCEPT !.counted = @ + 1,
                               !.countedOnLogin = (page.url = "login"),
                               !.counterFailed = (pl # NoFailure),
                               !.waits = @ + 1,
                               !.waited = @ + WaitSeconds(page),
                               !.timeouts = @ + RunsToTimeout(page)]
    /\ pc' = "finish"
    /\ UNCHANGED <<page, module, ready, restVars, driver, files, events, i, info_processed, detailed_events,
                   success, exitCode, stageResult, trace>>

\* num_participants = _count_participants_liveview(driver) and the two branches on it
CountParticipants ==
    /\ pc = "count"
    /\ \E pl \in {NoFailure, DriverDead} :
         /\ plan' = pl
         /\ num_participants' = CountParticipantsLiveview(page, pl).n
         /\ via' = CountParticipantsLiveview(page, pl).via
         /\ scrolls' = SoftScrolls(pl)
         /\ ops' = CounterOps(page, pl)
         /\ clock' = Tick(clock, CounterElapsed(page, pl))
         /\ detailed_event' =
              IF CountParticipantsLiveview(page, pl).n > 0
              THEN [detailed_event EXCEPT
                      !.numero_participantes = CountParticipantsLiveview(page, pl).n,
                      !.participantes_info =
                          NParticipantes(CountParticipantsLiveview(page, pl).n)]
              ELSE [detailed_event EXCEPT !.numero_participantes = 0,
                                          !.participantes_info = SinParticipantes]
         /\ cur' = [cur EXCEPT !.counted = @ + 1,
                               !.countedOnLogin = (page.url = "login"),
                               !.counterFailed = (pl # NoFailure),
                               !.waits = @ + 1,
                               !.waited = @ + WaitSeconds(page),
                               !.timeouts = @ + RunsToTimeout(page)]
    /\ pc' = "finish"
    /\ UNCHANGED <<page, module, ready, restVars, driver, files, events, i, info_processed, detailed_events,
                   success, exitCode, stageResult, trace>>

\* variant: the record is put at the head of the batch
FinishEvent_PrependsRecord ==
    /\ pc = "finish"
    /\ detailed_events' =
            <<detailed_event @@
              [timestamp_extraccion |-> TRUE, procesado_info |-> info_processed]>>
            \o detailed_events
    /\ trace' = Append(trace, cur)
    /\ cur' = NoCur
    /\ i' = i + 1
    /\ clock' = Tick(clock, 1)
    /\ pc' = "loop"
    /\ UNCHANGED <<driverVars, module, ready, restVars, driver, files, events, detailed_event, info_processed,
                   success, exitCode, stageResult>>

\* "Finalizar evento": timestamp, flag, append, pause
FinishEvent ==
    /\ pc = "finish"
    /\ detailed_events' = Append(detailed_events,
            detailed_event @@
            [timestamp_extraccion |-> TRUE, procesado_info |-> info_processed])
    /\ trace' = Append(trace, cur)
    /\ cur' = NoCur
    /\ i' = i + 1
    /\ clock' = Tick(clock, 1)
    /\ pc' = "loop"
    /\ UNCHANGED <<driverVars, module, ready, restVars, driver, files, events, detailed_event, info_processed,
                   success, exitCode, stageResult>>

\* a run deadline in seconds, as the design describes one (the code reads none)
RunDeadline == 30

\* variant: the batch is saved as soon as the run deadline has passed
SaveDetailed_AtDeadline ==
    /\ pc = "loop"
    /\ (i > Len(events) \/ clock > RunDeadline)
    /\ \E written \in BOOLEAN :
         /\ files' = IF written THEN [files EXCEPT !.info02 = TRUE] ELSE files
         /\ stageResult' = [stageResult EXCEPT !.info = IF written THEN "ok" ELSE "error"]
    /\ driver' = Driver(FALSE, driver.created, driver.quits + 1)
    /\ pc' = "main_end"
    /\ UNCHANGED <<driverVars, loopVars, module, ready, restVars, success, exitCode, clock>>

\* variant: driver.quit() at the end of the try block instead of in finally
SaveDetailed_QuitOnlyWhenWritten ==
    /\ pc = "loop"
    /\ i > Len(events)
    /\ \E written \in BOOLEAN :
         /\ files' = IF written THEN [files EXCEPT !.info02 = TRUE] ELSE files
         /\ stageResult' = [stageResult EXCEPT !.info = IF written THEN "ok" ELSE "error"]
         /\ driver' = IF written THEN Driver(FALSE, driver.created, driver.quits + 1)
                      ELSE driver
    /\ pc' = "main_end"
    /\ UNCHANGED <<driverVars, loopVars, module, ready, restVars, success, exitCode, clock>>

\* after the loop: the two 02info files are written and the batch returned, or
\* the writing raises and None is returned; main only logs either result
SaveDetailed ==
    /\ pc = "loop"
    /\ i > Len(events)
    /\ \E written \in BOOLEAN :
         /\ files' = IF written THEN [files EXCEPT !.info02 = TRUE] ELSE files
         /\ stageResult' = [stageResult EXCEPT !.info = IF written THEN "ok" ELSE "error"]
    /\ driver' = Driver(FALSE, driver.created, driver.quits + 1)
    /\ pc' = "main_end"
    /\ UNCHANGED <<driverVars, loopVars, module, ready, restVars, success, exitCode, clock>>

\* variant: the exit code does not depend on success
MainEnd_AlwaysZero ==
    /\ pc = "main_end"
    /\ exitCode' = 0
    /\ pc' = "done"
    /\ UNCHANGED <<driverVars, loopVars, module, ready, restVars, driver, files, success, clock, stageResult>>

\* return success; sys.exit(0 if success else 1)
MainEnd ==
    /\ pc = "main_end"
    /\ exitCode' = IF success THEN 0 ELSE 1
    /\ pc' = "done"
    /\ UNCHANGED <<driverVars, loopVars, module, ready, restVars, driver, files, success, clock, stageResult>>

Next ==
    \/ MainStart
    \/ ExtractEvents
    \/ ExtractDetailedInfoStart
    \/ EventStart
    \/ InfoFetch
    \/ ParticipantsNavigate
    \/ Relogin
    \/ CountParticipants
    \/ FinishEvent
    \/ SaveDetailed
    \/ MainEnd

Spec == Init /\ [][Next]_vars

----------------------------------------------------------------------------
(* The body of the event loop with the fields of the records in full, as   *)
(* written in EventosProxBeta.py and in extraerParticipantesEventosProxBeta *)
(* .py, applied to one stored event.  A field holds a string; a key the    *)
(* stored object lacks holds AbsentField.                                   *)

AbsentField == "<absent>"

preserved_fields ==
    {"id", "nombre", "fechas", "organizacion", "club", "lugar", "enlaces", "pais_bandera"}

StoredEvent(org, club, lugar, enlaces) ==
    [id |-> "4711", nombre |-> "Open de Agility", fechas |-> "1-2 nov",
     organizacion |-> org, club |-> club, lugar |-> lugar, enlaces |-> enlaces,
     pais_bandera |-> "ES"]

StoredEvents ==
    { StoredEvent(org, club, lugar, e) :
        org \in {"RSCE", AbsentField},
        club \in {"Club Canino Sur", "", "N/D", AbsentField},
        lugar \in {"Sevilla / España", "", "N/D", AbsentField},
        e \in EnlacesKinds }

\* event.get(field, '')
Get(ev, f) == IF ev[f] = AbsentField THEN "" ELSE ev[f]

\* {field: event.get(field, '') for field in preserved_fields}
PreservedCopy(ev) ==
    [f \in preserved_fields |-> IF f = "enlaces" THEN ev.enlaces ELSE Get(ev, f)]

\* a tag of the info page whose text names the club or the place: its text
\* after _clean, the length of that text, whether it holds "/", "Spain" or "España"
Tag(text, len, slash, country) ==
    [text |-> text, len |-> len, slash |-> slash, country |-> country]

Soup(club, lugar) == [club |-> club, lugar |-> lugar]

SoupPalette ==
    { Soup(<<>>, <<>>),
      Soup(<<Tag("", 0, FALSE, FALSE),
             Tag("Club Agility Madrid y muchas lineas de texto", 250, TRUE, TRUE),
             Tag("Club Agility Madrid", 19, FALSE, FALSE)>>,
           <<Tag("Lugar del evento", 16, FALSE, FALSE),
             Tag("Madrid / España", 15, TRUE, TRUE),
             Tag("Pabellon, Spain", 15, FALSE, TRUE)>>),
      Soup(<<Tag("Club Agility Madrid y muchas lineas de texto", 250, TRUE, TRUE)>>,
           <<Tag("Pabellon, Spain", 15, FALSE, TRUE)>>) }

NoText == "<none>"

\* the first tag whose cleaned text is not empty and shorter than 100
RECURSIVE FirstClubText(_, _)
FirstClubText(tags, k) ==
    IF k > Len(tags) THEN NoText
    ELSE IF tags[k].text # "" /\ tags[k].len < 100 THEN tags[k].text
    ELSE FirstClubText(tags, k + 1)

\* the first tag whose cleaned text is not empty and holds "/" or the country
RECURSIVE FirstLugarText(_, _)
FirstLugarText(tags, k) ==
    IF k > Len(tags) THEN NoText
    ELSE IF tags[k].text # "" /\ (tags[k].slash \/ tags[k].country) THEN tags[k].text
    ELSE FirstLugarText(tags, k + 1)

\* not detailed_event.get(f) or detailed_event.get(f) in ['N/D', '']
Missing(v) == v = "" \/ v \in {"N/D", ""}

\* variant: the club found on the info page always replaces the stored one
EnrichClub_Overwrites(de, soup) ==
    IF FirstClubText(soup.club, 1) # NoText
    THEN [de EXCEPT !.club = FirstClubText(soup.club, 1)]
    ELSE de

EnrichClub(de, soup) ==
    IF Missing(de.club) /\ FirstClubText(soup.club, 1) # NoText
    THEN [de EXCEPT !.club = FirstClubText(soup.club, 1)]
    ELSE de

EnrichLugar(de, soup) ==
    IF Missing(de.lugar) /\ FirstLugarText(soup.lugar, 1) # NoText
    THEN [de EXCEPT !.lugar = FirstLugarText(soup.lugar, 1)]
    ELSE de

InfoOutcomes == {"ok", "raise_get", "raise_club", "raise_late"}

\* the info block of EventosProxBeta.py: the fields are set one by one, an
\* exception leaves what was set before it
InfoBlock(de, soup, outcome) ==
    CASE outcome = "raise_get" -> de
      [] outcome = "raise_club" -> EnrichClub(de, soup)
      [] outcome = "raise_late" -> EnrichLugar(EnrichClub(de, soup), soup)
      [] outcome = "ok" ->
            EnrichLugar(EnrichClub(de, soup), soup) @@ [informacion_adicional |-> TRUE]

\* results the participants block can leave in the record
PartStatuses == { NParticipantes(2), SinParticipantes, ErrorStatus }

\* variant: the handler of the event loop does not set the flag
FailedEvent_WithoutFlag(ev) ==
    [timestamp_extraccion |-> TRUE, numero_participantes |-> 0,
     participantes_info |-> ErrorStatus] @@ ev

\* the handler of the event loop of EventosProxBeta.py: the stored event
\* itself, with the four fields set, goes to the batch
FailedEvent(ev) ==
    [timestamp_extraccion |-> TRUE, procesado_info |-> FALSE,
     numero_participantes |-> 0, participantes_info |-> ErrorStatus] @@ ev

InitInfo ==
    /\ page = BlankPage
    /\ plan = NoFailure
    /\ num_participants = -1
    /\ via = ""
    /\ scrolls = 0
    /\ pc \in {"beta_loop", "extraer_loop"}
    /\ module = "info"
    /\ files = NoFiles
    /\ events \in { <<ev>> : ev \in StoredEvents }
    /\ i = 1
    /\ detailed_event = NoEvent
    /\ info_processed = FALSE
    /\ detailed_events = <<>>
    /\ success = TRUE
    /\ exitCode = -1
    /\ clock = 0
    /\ stageResult = NoStage
    /\ cur = NoCur
    /\ trace = <<>>
    /\ ready = FALSE
    /\ ops = <<>>
    /\ driver = NoDriver
    /\ script = ""
    /\ clean_arg = <<>>
    /\ clean_result = <<>>
    /\ all_participants = <<>>

infoFrame == <<page, plan, num_participants, via, scrolls, ops, module, files, events,
               success, exitCode, clock, stageResult, cur, ready, restVars, driver>>

\* one iteration of the loop of extract_detailed_info in EventosProxBeta.py
BetaEvent ==
    /\ pc = "beta_loop"
    /\ i <= Len(events)
    /\ IF ~events[i].enlaces.valid
       THEN /\ detailed_events' = Append(detailed_events, FailedEvent(events[i]))
            /\ trace' = Append(trace, [NoCur EXCEPT !.outerFailed = TRUE])
            /\ detailed_event' =
                  PreservedCopy(events[i])
                  @@ [numero_participantes |-> 0, participantes_info |-> NoDisponible]
            /\ info_processed' = FALSE
       ELSE \E soup \in SoupPalette, outcome \in InfoOutcomes, st \in PartStatuses :
            LET hasInfo == "info" \in events[i].enlaces.links
                hasPart == "participantes" \in events[i].enlaces.links
                de0 == PreservedCopy(events[i])
                       @@ [numero_participantes |-> 0, participantes_info |-> NoDisponible]
                de1 == IF hasInfo THEN InfoBlock(de0, soup, outcome) ELSE de0
                de2 == IF hasPart
                       THEN [de1 EXCEPT !.numero_participantes = st.n,
                                        !.participantes_info = st]
                       ELSE de1
            IN  /\ detailed_event' = de2
                /\ info_processed' = (hasInfo /\ outcome = "ok")
                /\ detailed_events' =
                      Append(detailed_events,
                             de2 @@ [timestamp_extraccion |-> TRUE,
                                     procesado_info |-> (hasInfo /\ outcome = "ok")])
                /\ trace' = Append(trace,
                      [NoCur EXCEPT !.infoFailed = (hasInfo /\ outcome # "ok"),
                                    !.infoNavs = IF hasInfo THEN 1 ELSE 0,
                                    !.partFailed = (hasPart /\ st = ErrorStatus)])
    /\ i' = i + 1
    /\ pc' = "beta_loop"
    /\ UNCHANGED infoFrame

\* one iteration of the loop of extract_detailed_info in
\* extraerParticipantesEventosProxBeta.py: no inner handler, no participants
\* block; the handler of the loop appends the stored event as it is
ExtraerEvent ==
    /\ pc = "extraer_loop"
    /\ i <= Len(events)
    /\ IF ~events[i].enlaces.valid
       THEN /\ detailed_events' = Append(detailed_events, events[i])
            /\ trace' = Append(trace, [NoCur EXCEPT !.outerFailed = TRUE])
            /\ detailed_event' = PreservedCopy(events[i])
       ELSE IF "info" \in events[i].enlaces.links
       THEN \E soup \in SoupPalette, outcome \in InfoOutcomes :
            LET de1 == InfoBlock(PreservedCopy(events[i]), soup, outcome)
            IN  IF outcome = "ok"
                THEN /\ detailed_event' = de1 @@ [timestamp_extraccion |-> TRUE]
                     /\ detailed_events' =
                           Append(detailed_events, de1 @@ [timestamp_extraccion |-> TRUE])
                     /\ trace' = Append(trace, [NoCur EXCEPT !.infoNavs = 1])
                ELSE /\ detailed_event' = de1
                     /\ detailed_events' = Append(detailed_events, events[i])
                     /\ trace' = Append(trace, [NoCur EXCEPT !.infoNavs = 1,
                                                             !.infoFailed = TRUE,
                                                             !.outerFailed = TRUE])
       ELSE /\ detailed_event' = PreservedCopy(events[i])
            /\ detailed_events' = Append(detailed_events, PreservedCopy(events[i]))
            /\ trace' = Append(trace, NoCur)
    /\ i' = i + 1
    /\ pc' = "extraer_loop"
    /\ UNCHANGED <<info_processed, infoFrame>>

NextInfo == BetaEvent \/ ExtraerEvent

SpecInfo == InitInfo /\ [][NextInfo]_vars

----------------------------------------------------------------------------
(* _clean applied to one text.  A text is a tuple of characters; the       *)
(* characters that matter are a letter, the blank, the tab, the line feed, *)
(* the dash and the colon, and two characters that NFKC replaces: the      *)
(* no-break space (by a blank) and the fullwidth colon (by a colon).  A     *)
(* character outside ASCII is written by its name.                         *)

MaxText == 4

CleanAlphabet == {"a", " ", "\t", "\n", "-", "nbsp", "fullwidth-colon"}

\* unicodedata.normalize("NFKC", s), character by character
NfkcChar(c) ==
    CASE c = "nbsp" -> " "
      [] c = "fullwidth-colon" -> ":"
      [] OTHER -> c

Nfkc(v) == [k \in 1..Len(v) |-> NfkcChar(v[k])]

RECURSIVE LStrip(_, _)
LStrip(v, S) == IF v # <<>> /\ Head(v) \in S THEN LStrip(Tail(v), S) ELSE v

RECURSIVE RStrip(_, _)
RStrip(v, S) ==
    IF v # <<>> /\ v[Len(v)] \in S THEN RStrip(SubSeq(v, 1, Len(v) - 1), S) ELSE v

\* re.sub(r"[ \t]+", " ", s)
RECURSIVE Collapse(_)
Collapse(v) ==
    IF v = <<>> THEN <<>>
    ELSE IF Head(v) \in {" ", "\t"}
         THEN <<" ">> \o Collapse(LStrip(Tail(v), {" ", "\t"}))
    ELSE <<Head(v)>> \o Collapse(Tail(v))

\* the argument of s.strip(...)
StripSet == {" ", "\t", "\r", "\n", "-", "bullet", "*", "middle-dot", ":", ";"}

\* variant: the text is normalised after it has been collapsed and stripped
Clean_NormalizesLast(v) ==
    IF v = Absent \/ v = <<>> THEN <<>>
    ELSE Nfkc(RStrip(LStrip(Collapse(v), StripSet), StripSet))

\* _clean: "" for a falsy argument, else normalise, collapse, strip
Clean(v) ==
    IF v = Absent \/ v = <<>> THEN <<>>
    ELSE RStrip(LStrip(Collapse(Nfkc(v)), StripSet), StripSet)

InitClean ==
    /\ page = BlankPage
    /\ plan = NoFailure
    /\ num_participants = -1
    /\ via = ""
    /\ scrolls = 0
    /\ pc = "clean"
    /\ module = "none"
    /\ files = NoFiles
    /\ events = <<>>
    /\ i = 0
    /\ detailed_event = NoEvent
    /\ info_processed = FALSE
    /\ detailed_events = <<>>
    /\ success = TRUE
    /\ exitCode = -1
    /\ clock = 0
    /\ stageResult = NoStage
    /\ cur = NoCur
    /\ trace = <<>>
    /\ ready = FALSE
    /\ ops = <<>>
    /\ driver = NoDriver
    /\ script = ""
    /\ clean_arg \in {Absent} \cup SeqsUpTo(CleanAlphabet, MaxText)
    /\ clean_result = <<>>
    /\ all_participants = <<>>

cleanFrame == <<driverVars, loopVars, module, files, success, exitCode, clock,
                stageResult, ready, driver, script, all_participants>>

\* one call _clean(s)
CleanCall ==
    /\ pc = "clean"
    /\ clean_result' = Clean(clean_arg)
    /\ pc' = "cleaned"
    /\ UNCHANGED <<clean_arg, cleanFrame>>

\* _clean applied to the value the first call returned
CleanAgain ==
    /\ pc = "cleaned"
    /\ clean_arg' = clean_result
    /\ clean_result' = Clean(clean_result)
    /\ pc' = "cleaned_twice"
    /\ UNCHANGED cleanFrame

NextClean == CleanCall \/ CleanAgain

SpecClean == InitClean /\ [][NextClean]_vars

----------------------------------------------------------------------------
(* extract_participants of extraerParticipantesEventosProxBeta.py.  An      *)
(* event of the batch it loads may lack the key id; the ids that are       *)
(* present differ from event to event.  A participant is named by the      *)
(* position of its event and its own position on the event's page.         *)

MaxFound == 2

EventIds == {"e1", "e2", "e3"}

ParticipantLinks == { Links(TRUE, {"participantes"}), Links(TRUE, {}), Links(FALSE, {}) }

DetailedBatches ==
    UNION { { b \in [1..n -> [id : EventIds \cup {AbsentField}, enlaces : ParticipantLinks]] :
                \A k, l \in 1..n : (k # l /\ b[k].id # AbsentField) => b[k].id # b[l].id } :
            n \in 0..MaxEvents }

\* OUT_DIR as extract_participants sees it: the latest
\* 02competiciones_detalladas file, the side files by name (<<>>: no such
\* file), the consolidated file and how often it was written, the CSV
OutDir(detailed02, stored, side, consolidated, writes, csv) ==
    [detailed02 |-> detailed02, stored |-> stored, side |-> side,
     consolidated |-> consolidated, writes |-> writes, csv |-> csv]

SideNames == EventIds \cup {"unknown"}

\* variant: one side file for the whole run
SideFileName_AlwaysUnknown(ev) == "unknown"

\* f"participantes_{event.get('id', 'unknown')}.json", without the affixes
SideFileName(ev) == IF ev.id = AbsentField THEN "unknown" ELSE ev.id

\* participants_data of the event at position k when n participants are found
ParticipantsData(k, n) == [j \in 1..n |-> [event |-> k, participant |-> j]]

\* what happened to one event in extract_participants (not program state)
Handled(found, written) == [found |-> found, written |-> written]

InitParticipants ==
    /\ page = BlankPage
    /\ plan = NoFailure
    /\ num_participants = -1
    /\ via = ""
    /\ scrolls = 0
    /\ pc = "extract_participants"
    /\ module = "participants"
    /\ files \in { OutDir(FALSE, <<>>, [n \in SideNames |-> <<>>], <<>>, 0, FALSE) }
               \cup { OutDir(TRUE, b, [n \in SideNames |-> <<>>], <<>>, 0, FALSE) :
                        b \in DetailedBatches }
    /\ events = <<>>
    /\ i = 0
    /\ detailed_event = NoEvent
    /\ info_processed = FALSE
    /\ detailed_events = <<>>
    /\ success = TRUE
    /\ exitCode = -1
    /\ clock = 0
    /\ stageResult = NoStage
    /\ cur = NoCur
    /\ trace = <<>>
    /\ ready = FALSE
    /\ ops = <<>>
    /\ driver = NoDriver
    /\ script = "extraerParticipantesEventosProxBeta.py"
    /\ clean_arg = <<>>
    /\ clean_result = <<>>
    /\ all_participants = <<>>

participantsFrame == <<driverVars, module, detailed_event, info_processed, detailed_events,
                       success, exitCode, clock, cur, ready, script, clean_arg,
                       clean_result>>

\* extract_participants up to the event loop
ExtractParticipantsStart ==
    /\ pc = "extract_participants"
    /\ IF ~files.detailed02
       THEN /\ stageResult' = [stageResult EXCEPT !.info = "nofile"]
            /\ pc' = "participants_done"
            /\ UNCHANGED <<events, i, driver>>
       ELSE \E outcome \in {"driver", "login", "ok"} :
            /\ stageResult' = [stageResult EXCEPT !.info = IF outcome = "ok" THEN "" ELSE outcome]
            /\ events' = files.stored
            /\ i' = IF outcome = "ok" THEN 1 ELSE i
            /\ driver' = CASE outcome = "ok" -> Driver(TRUE, driver.created + 1, driver.quits)
                           [] outcome = "login" ->
                                Driver(FALSE, driver.created + 1, driver.quits + 1)
                           [] OTHER -> driver
            /\ pc' = IF outcome = "ok" THEN "participants_loop" ELSE "participants_done"
    /\ UNCHANGED <<participantsFrame, files, trace, all_participants>>

\* one iteration of the event loop: without a participants link the event is
\* only logged; a null enlaces, a navigation error or a failing write of the
\* side file ends the iteration in the handler; participants found are written
\* to the side file of the event and then added to all_participants
ParticipantsEvent ==
    /\ pc = "participants_loop"
    /\ i <= Len(events)
    /\ IF events[i].enlaces.valid /\ "participantes" \notin events[i].enlaces.links
       THEN /\ trace' = Append(trace, Handled(<<>>, FALSE))
            /\ UNCHANGED <<files, all_participants>>
       ELSE IF ~events[i].enlaces.valid
       THEN /\ trace' = Append(trace, Handled(<<>>, FALSE))
            /\ UNCHANGED <<files, all_participants>>
       ELSE \/ /\ trace' = Append(trace, Handled(<<>>, FALSE))
               /\ UNCHANGED <<files, all_participants>>
            \/ \E n \in 1..MaxFound, written \in BOOLEAN :
               /\ trace' = Append(trace, Handled(ParticipantsData(i, n), written))
               /\ files' = IF written
                           THEN [files EXCEPT !.side[SideFileName(events[i])] =
                                                  ParticipantsData(i, n)]
                           ELSE files
               /\ all_participants' = IF written
                                      THEN all_participants \o ParticipantsData(i, n)
                                      ELSE all_participants
    /\ i' = i + 1
    /\ pc' = "participants_loop"
    /\ UNCHANGED <<participantsFrame, events, stageResult, driver>>

\* after the loop: a non-empty all_participants is written to the
\* 03todos_participantes file and generate_csv_output is called; the list is
\* returned, or None when the writing raises; the driver is quit
SaveParticipants ==
    /\ pc = "participants_loop"
    /\ i > Len(events)
    /\ IF all_participants = <<>>
       THEN /\ stageResult' = [stageResult EXCEPT !.info = "empty"]
            /\ UNCHANGED files
       ELSE \E outcome \in {"error", "csv_error", "ok"} :
            /\ stageResult' = [stageResult EXCEPT !.info = IF outcome = "ok" THEN "ok" ELSE "error"]
            /\ files' = CASE outcome = "error" -> files
                          [] outcome = "csv_error" ->
                               [files EXCEPT !.consolidated = all_participants,
                                             !.writes = @ + 1]
                          [] OTHER ->
                               [files EXCEPT !.consolidated = all_participants,
                                             !.writes = @ + 1,
                                             !.csv = TRUE]
    /\ driver' = Driver(FALSE, driver.created, driver.quits + 1)
    /\ pc' = "participants_done"
    /\ UNCHANGED <<participantsFrame, events, i, trace, all_participants>>

NextParticipants == ExtractParticipantsStart \/ ParticipantsEvent \/ SaveParticipants

SpecParticipants == InitParticipants /\ [][NextParticipants]_vars

----------------------------------------------------------------------------
(* The stage dispatch of main, in EventosProxBeta.py and in                *)
(* extraerParticipantesEventosProxBeta.py.  A stage function is taken by   *)
(* its result and the files it writes; trace lists the calls of the stage  *)
(* functions in the order they are made.                                   *)

Scripts == {"EventosProxBeta.py", "extraerParticipantesEventosProxBeta.py"}

\* values of --module a user may try
Selectors == {"events", "info", "participants", "csv", "all"}

\* choices=[...] of the argument --module
Choices(sc) == IF sc = "EventosProxBeta.py" THEN Modules ELSE Selectors

\* OUT_DIR as main sees it: which of the outputs exist
Artifacts(events01, detailed02, participants03, csv, final) ==
    [events01 |-> events01, detailed02 |-> detailed02,
     participants03 |-> participants03, csv |-> csv, final |-> final]

NoArtifacts == Artifacts(FALSE, FALSE, FALSE, FALSE, FALSE)

\* one call of a stage function: by main, or by another stage function
Call(stage, outcome, by) == [stage |-> stage, outcome |-> outcome, by |-> by]

InitMain ==
    /\ page = BlankPage
    /\ plan = NoFailure
    /\ num_participants = -1
    /\ via = ""
    /\ scrolls = 0
    /\ pc = "main"
    /\ module \in Selectors
    /\ files \in { Artifacts(e, d, p, FALSE, FALSE) : e, d, p \in BOOLEAN }
    /\ events = <<>>
    /\ i = 0
    /\ detailed_event = NoEvent
    /\ info_processed = FALSE
    /\ detailed_events = <<>>
    /\ success = TRUE
    /\ exitCode = -1
    /\ clock = 0
    /\ stageResult = NoStage
    /\ cur = NoCur
    /\ trace = <<>>
    /\ ready = FALSE
    /\ ops = <<>>
    /\ driver = NoDriver
    /\ script \in Scripts
    /\ clean_arg = <<>>
    /\ clean_result = <<>>
    /\ all_participants = <<>>

mainFrame == <<driverVars, events, i, detailed_event, info_processed, detailed_events,
               cur, clock, stageResult, ready, driver, clean_arg, clean_result,
               all_participants, script, module>>

\* main up to the try block: EventosProxBeta.py cleans OUT_DIR (every file, or
\* up to the first error); parse_args ends the process with code 2 on a value
\* that is not among the choices
MainArgs ==
    /\ pc = "main"
    /\ files' \in IF script = "EventosProxBeta.py" THEN {files, NoArtifacts} ELSE {files}
    /\ IF module \in Choices(script)
       THEN /\ success' = TRUE
            /\ pc' = "stage_events"
            /\ UNCHANGED exitCode
       ELSE /\ exitCode' = 2
            /\ pc' = "done"
            /\ UNCHANGED success
    /\ UNCHANGED <<mainFrame, trace>>

\* "Módulo 1": a falsy result of extract_events sets success to False
StageEvents ==
    /\ pc = "stage_events"
    /\ IF module \in {"events", "all"}
       THEN \E outcome \in {"ok", "failed"} :
            /\ trace' = Append(trace, Call("events", outcome, "main"))
            /\ files' = IF outcome = "ok" THEN [files EXCEPT !.events01 = TRUE] ELSE files
            /\ success' = (outcome = "ok")
       ELSE UNCHANGED <<trace, files, success>>
    /\ pc' = "stage_info"
    /\ UNCHANGED <<mainFrame, exitCode>>

\* variant: a falsy result of extract_detailed_info sets success to False
StageInfo_FailureAborts ==
    /\ pc = "stage_info"
    /\ IF module \in {"info", "all"} /\ success
       THEN \E outcome \in IF files.events01 THEN {"ok", "failed", "raises"} ELSE {"failed"} :
            /\ trace' = Append(trace, Call("info", outcome, "main"))
            /\ files' = IF outcome = "ok" THEN [files EXCEPT !.detailed02 = TRUE] ELSE files
            /\ success' = (outcome = "ok")
            /\ pc' = IF outcome = "raises" \/ script = "EventosProxBeta.py"
                     THEN "main_return" ELSE "stage_participants"
       ELSE /\ pc' = IF script = "EventosProxBeta.py"
                     THEN "main_return" ELSE "stage_participants"
            /\ UNCHANGED <<trace, files, success>>
    /\ UNCHANGED <<mainFrame, exitCode>>

\* "Módulo 2": a falsy result of extract_detailed_info is only logged; an
\* error that escapes it (the events file cannot be parsed) reaches the
\* handler of main, which returns False
StageInfo ==
    /\ pc = "stage_info"
    /\ IF module \in {"info", "all"} /\ success
       THEN \E outcome \in IF files.events01 THEN {"ok", "failed", "raises"} ELSE {"failed"} :
            /\ trace' = Append(trace, Call("info", outcome, "main"))
            /\ files' = IF outcome = "ok" THEN [files EXCEPT !.detailed02 = TRUE] ELSE files
            /\ success' = (outcome # "raises")
            /\ pc' = IF outcome = "raises" \/ script = "EventosProxBeta.py"
                     THEN "main_return" ELSE "stage_participants"
       ELSE /\ pc' = IF script = "EventosProxBeta.py"
                     THEN "main_return" ELSE "stage_participants"
            /\ UNCHANGED <<trace, files, success>>
    /\ UNCHANGED <<mainFrame, exitCode>>

\* "Módulo 3": extract_participants; when it has collected participants it
\* writes the 03 file and calls generate_csv_output itself
StageParticipants ==
    /\ pc = "stage_participants"
    /\ IF module \in {"participants", "all"} /\ success
       THEN \E outcome \in IF files.detailed02 THEN {"found", "none", "failed", "raises"}
                           ELSE {"failed"} :
            /\ trace' = IF outcome = "found"
                        THEN trace \o <<Call("participants", outcome, "main"),
                                        Call("csv", "ok", "extract_participants")>>
                        ELSE Append(trace, Call("participants", outcome, "main"))
            /\ files' = IF outcome = "found"
                        THEN [files EXCEPT !.participants03 = TRUE, !.csv = TRUE]
                        ELSE files
            /\ success' = (outcome # "raises")
            /\ pc' = IF outcome = "raises" THEN "main_return" ELSE "stage_csv"
       ELSE /\ pc' = "stage_csv"
            /\ UNCHANGED <<trace, files, success>>
    /\ UNCHANGED <<mainFrame, exitCode>>

\* "Módulo 4": generate_csv_output; False without a participants file or
\* with an empty one
StageCsv ==
    /\ pc = "stage_csv"
    /\ IF module \in {"csv", "all"} /\ success
       THEN \E outcome \in IF files.participants03 THEN {"ok", "failed", "raises"}
                           ELSE {"failed"} :
            /\ trace' = Append(trace, Call("csv", outcome, "main"))
            /\ files' = IF outcome = "ok" THEN [files EXCEPT !.csv = TRUE] ELSE files
            /\ success' = (outcome # "raises")
            /\ pc' = IF outcome = "raises" THEN "main_return" ELSE "stage_final"
       ELSE /\ pc' = "stage_final"
            /\ UNCHANGED <<trace, files, success>>
    /\ UNCHANGED <<mainFrame, exitCode>>

\* "Archivo final JSON": only for all; a False result sets success to False
StageFinal ==
    /\ pc = "stage_final"
    /\ IF module = "all" /\ success
       THEN \E outcome \in IF files.events01 THEN {"ok", "raises"} ELSE {"failed"} :
            /\ trace' = Append(trace, Call("final", outcome, "main"))
            /\ files' = IF outcome = "ok" THEN [files EXCEPT !.final = TRUE] ELSE files
            /\ success' = (outcome = "ok")
       ELSE UNCHANGED <<trace, files, success>>
    /\ pc' = "main_return"
    /\ UNCHANGED <<mainFrame, exitCode>>

\* return success (False from the handler); sys.exit(0 if success else 1)
MainReturn ==
    /\ pc = "main_return"
    /\ exitCode' = IF success THEN 0 ELSE 1
    /\ pc' = "done"
    /\ UNCHANGED <<mainFrame, trace, files, success>>

NextMain ==
    \/ MainArgs
    \/ StageEvents
    \/ StageInfo
    \/ StageParticipants
    \/ StageCsv
    \/ StageFinal
    \/ MainReturn

SpecMain == InitMain /\ [][NextMain]_vars

----------------------------------------------------------------------------
(* Properties of the counter, stated without the definitions they test *)

Counted == pc = "counted"

\* an element carries one of the five supported spellings
Carries(el) ==
    \/ el.bid # Absent
    \/ el.dbid # Absent
    \/ el.click = BookingDetails
    \/ (el.dclick # Absent /\ \E k \in 1..Len(el.dclick) : el.dclick[k] = "booking_details")
    \/ (el.id # Absent /\ el.id # <<>> /\ Head(el.id) = "booking-")

\* the value that names the element: its booking-id attribute, else its id
RawIdentifier(el) ==
    IF el.bid # Absent /\ el.bid # <<>> THEN el.bid
    ELSE IF el.dbid # Absent /\ el.dbid # <<>> THEN el.dbid
    ELSE IF el.id # Absent THEN el.id
    ELSE <<>>

CarryingNodes(pg) == { k \in 1..Len(pg.nodes) : Carries(pg.nodes[k]) }

RawIdentifiers(pg) == { RawIdentifier(pg.nodes[k]) : k \in CarryingNodes(pg) }

\* the first run of three or more digits of each raw identifier
DigitIdentifiers(pg) ==
    { SearchDigits3(RawIdentifier(pg.nodes[k]), 1) : k \in CarryingNodes(pg) } \ {NoMatch}

NoTableNoText(pg) == pg.tables = <<>> /\ pg.body = <<>>

\* C1 (as claimed): the strategies are applied in strict order, the first
\* success returns, and 0 is returned only when all three strategies fail.
C1_StrictOrderZeroOnlyOnFailure ==
    Counted =>
        /\ BookingIds(page, plan) # {} =>
              num_participants = Cardinality(BookingIds(page, plan)) /\ via = "ids"
        /\ via = "table" => BookingIds(page, plan) = {}
        /\ via = "text" => BookingIds(page, plan) = {} /\ TableFallback(page, plan) = NoCount
        /\ num_participants = 0 => via = "none"

\* C1 (amended): a non-empty identifier set returns its size whatever tables
\* and text say; a table count is returned only when the set is empty; a text
\* count only when no table yielded one; 0 is returned only when the set is
\* empty, no table yields a count and the text fallback fails or accepts the
\* number 0.
C1_StrictOrder ==
    Counted =>
        /\ BookingIds(page, plan) # {} =>
              num_participants = Cardinality(BookingIds(page, plan)) /\ via = "ids"
        /\ via = "table" =>
              BookingIds(page, plan) = {} /\ num_participants = TableFallback(page, plan)
        /\ via = "text" =>
              /\ BookingIds(page, plan) = {}
              /\ TableFallback(page, plan) = NoCount
              /\ num_participants = TextFallback(page, plan)
        /\ via = "none" =>
              /\ BookingIds(page, plan) = {}
              /\ TableFallback(page, plan) = NoCount
              /\ TextFallback(page, plan) = NoCount
        /\ num_participants = 0 =>
              /\ BookingIds(page, plan) = {}
              /\ TableFallback(page, plan) = NoCount
              /\ TextFallback(page, plan) \in {NoCount, 0}

\* identifiers, a table that yields a count and a text count compete; the identifiers win
C1_Witness ==
    /\ Counted
    /\ via = "ids"
    /\ num_participants = 2
    /\ TableFallback(page, plan) = 5
    /\ TextFallback(page, plan) = 12

\* C3 (as claimed): with N >= 1 elements of pairwise distinct identifier, under
\* any supported spelling and whatever the identifier values are, and no table
\* or text, the counter returns N.
C3_AnyIdentifierValue ==
    (Counted /\ plan = NoFailure /\ NoTableNoText(page) /\ RawIdentifiers(page) # {}) =>
        num_participants = Cardinality(RawIdentifiers(page))

\* C3 (amended): with no table or text, the counter returns the number of
\* distinct identifiers among the elements carrying a supported spelling, the
\* identifier of an element being the first run of three or more digits of
\* its booking-id attribute (or of its id when it has none); an element
\* without such a run is not counted, whatever spelling carries it.
C3_DigitIdentifiers ==
    (Counted /\ plan = NoFailure /\ NoTableNoText(page)) =>
        num_participants = Cardinality(DigitIdentifiers(page))

\* two elements under different spellings, both with a digit run: counted 2
C3_Witness ==
    /\ Counted /\ plan = NoFailure /\ NoTableNoText(page)
    /\ Len(page.nodes) = 2
    /\ page.nodes[1].dclick # Absent
    /\ page.nodes[2].bid = <<>>
    /\ num_participants = 2

\* C4: elements that share the extracted identifier count once, elements with
\* different identifiers count separately: whenever some identifier is
\* extracted, the count is the number of distinct identifiers.
C4_Deduplication ==
    (Counted /\ plan.sels = {} /\ DigitIdentifiers(page) # {}) =>
        /\ num_participants = Cardinality(DigitIdentifiers(page))
        /\ \A a, b \in CarryingNodes(page) :
              (/\ a # b
               /\ CarryingNodes(page) = {a, b}
               /\ SearchDigits3(RawIdentifier(page.nodes[a]), 1) # NoMatch
               /\ SearchDigits3(RawIdentifier(page.nodes[b]), 1) # NoMatch)
              => num_participants =
                    IF SearchDigits3(RawIdentifier(page.nodes[a]), 1)
                         = SearchDigits3(RawIdentifier(page.nodes[b]), 1)
                    THEN 1 ELSE 2

\* the same booking under two spellings (matched by different selectors): counted once
C4_Witness ==
    /\ Counted /\ plan.sels = {}
    /\ Len(page.nodes) = 2
    /\ page.nodes[1].bid = <<"1", "2", "3", "4", "5">>
    /\ page.nodes[2].dbid = <<"1", "2", "3", "4", "5">>
    /\ num_participants = 1

\* the first row of the table names one of dorsal, guía/guia, perro, nombre
RecognizedHeader(t) ==
    \E k \in 1..Len(t.header) :
        t.header[k] \in {"Dorsal", "dorsal", "Guía", "guía", "GUIA", "guia",
                         "Perro", "perro", "Nombre", "nombre"}

NoCountPhrase(b) == b \in {<<>>, <<"no", " ", "hay", " ", "participantes">>}

\* C5: when the only signal is one table with a recognized header keyword in
\* its first row and H+1 rows, the counter returns H, for every H >= 0.
C5_HeaderTable ==
    (/\ Counted /\ plan = NoFailure
     /\ DigitIdentifiers(page) = {}
     /\ NoCountPhrase(page.body)
     /\ Len(page.tables) = 1
     /\ RecognizedHeader(page.tables[1]))
    => num_participants = page.tables[1].rows - 1

\* header row Dorsal/Guía/Perro and 6 rows in all: 5
C5_Witness ==
    /\ Counted /\ plan = NoFailure
    /\ page.nodes = <<>> /\ page.body = <<>>
    /\ page.tables = <<Table(6, <<"Dorsal", " ", "Guía", " ", "Perro">>)>>
    /\ num_participants = 5

\* positions of txt where a phrase "<N> participantes/inscritos/competidores"
\* or "total: <N>" starts
CountWords ==
    {"participante", "participantes", "inscrito", "inscritos", "competidor", "competidores"}

PhraseAt(txt, k) ==
    \/ /\ txt[k] \in Digits
       /\ (k = 1 \/ txt[k - 1] \notin Digits)
       /\ SkipBlanks(txt, RunEnd(txt, k) + 1) <= Len(txt)
       /\ txt[SkipBlanks(txt, RunEnd(txt, k) + 1)] \in CountWords
    \/ /\ txt[k] = "total:"
       /\ RunEnd(txt, SkipBlanks(txt, k + 1)) >= SkipBlanks(txt, k + 1)

PhraseValue(txt, k) ==
    IF txt[k] = "total:"
    THEN ParseInt(SubSeq(txt, SkipBlanks(txt, k + 1), RunEnd(txt, SkipBlanks(txt, k + 1))))
    ELSE ParseInt(SubSeq(txt, k, RunEnd(txt, k)))

InBoundPhrases(txt) ==
    { k \in 1..Len(txt) : PhraseAt(txt, k) /\ PhraseValue(txt, k) <= 2000 }

\* value of the phrase of txt that comes first in the text among those within the bound
FirstInBoundPhrase(txt) ==
    IF InBoundPhrases(txt) = {} THEN 0
    ELSE PhraseValue(txt, CHOOSE k \in InBoundPhrases(txt) :
                              \A j \in InBoundPhrases(txt) : k <= j)

TextFallbackReached ==
    /\ Counted /\ plan = NoFailure
    /\ DigitIdentifiers(page) = {}
    /\ page.tables = <<>>

\* C6 (as claimed): the text fallback returns the first phrase of the page
\* text whose value is within the bound; an earlier out-of-bound phrase does
\* not hide a later in-bound one.
C6_FirstInBoundInText ==
    TextFallbackReached => num_participants = FirstInBoundPhrase(Lower(page.body))

InBound(m) == m # NoMatch /\ ParseInt(m) <= 2000

\* C6 (amended): the text fallback tries the patterns in the order
\* participantes, inscritos, competidores, total; of each pattern only the
\* leftmost match in the text is looked at; the value of the first pattern
\* whose leftmost match is at most 2000 is returned, 0 if there is none.
C6_FirstPatternLeftmostMatch ==
    TextFallbackReached =>
        LET txt == Lower(page.body)
            m1 == SearchNumWord(txt, {"participante", "participantes"}, 1)
            m2 == SearchNumWord(txt, {"inscrito", "inscritos"}, 1)
            m3 == SearchNumWord(txt, {"competidor", "competidores"}, 1)
            m4 == SearchTotal(txt, 1)
        IN  num_participants =
                IF InBound(m1) THEN ParseInt(m1)
                ELSE IF InBound(m2) THEN ParseInt(m2)
                ELSE IF InBound(m3) THEN ParseInt(m3)
                ELSE IF InBound(m4) THEN ParseInt(m4)
                ELSE 0

\* "3000 participantes total: 40": the first pattern is out of bound, the fourth gives 40
C6_Witness ==
    /\ TextFallbackReached
    /\ page.body = <<"3", "0", "0", "0", " ", "participantes", " ", "total:", " ", "4", "0">>
    /\ via = "text"
    /\ num_participants = 40

----------------------------------------------------------------------------
(* Properties of the event loop and of main *)

\* the event loop of extract_detailed_info has run to its end
LoopDone == stageResult.info \in {"ok", "error"}

Recorded == 1..Len(detailed_events)

EventFailed(t) ==
    t.infoFailed \/ t.partFailed \/ t.outerFailed \/ t.counterFailed \/ t.reloginFailed

IsError(r) == r.participantes_info.kind = "Error" /\ r.numero_participantes = 0

Happened == { trace[k] : k \in 1..Len(trace) } \cup (IF pc = "finish" THEN {cur} ELSE {})

TimedOut(t) == t.waitTimedOut /\ t.counted = 1 /\ ~t.counterFailed /\ ~t.countedOnLogin

\* C8 (as claimed): when the readiness wait times out the record gets count 0
\* and a status distinct from the one of a ready page without participants.
C8_TimeoutHasOwnStatus ==
    \A k \in Recorded :
        TimedOut(trace[k]) =>
            /\ detailed_events[k].numero_participantes = 0
            /\ detailed_events[k].participantes_info # SinParticipantes

\* C8 (amended): the result of the readiness wait is ignored: after a wait
\* that timed out the counter is run all the same and the record gets what it
\* finds on the page, '<n> participantes' with n > 0, or count 0 with 'Sin
\* participantes', the status a ready page without participants gets too.
C8_TimeoutIgnored ==
    \A k \in Recorded :
        /\ TimedOut(trace[k]) =>
            /\ detailed_events[k].numero_participantes = trace[k].registered
            /\ detailed_events[k].participantes_info =
                  IF trace[k].registered > 0
                  THEN NParticipantes(trace[k].registered) ELSE SinParticipantes
        /\ (trace[k].counted = 1 /\ ~trace[k].waitTimedOut /\ trace[k].registered = 0)
              => detailed_events[k].participantes_info = SinParticipantes

\* a page that never hydrates but lists one booking: counted 1 after the timeout
C8_Witness ==
    /\ Len(detailed_events) >= 1
    /\ TimedOut(trace[1])
    /\ detailed_events[1].numero_participantes = 1
    /\ detailed_events[1].participantes_info = NParticipantes(1)

\* C9 (as claimed): an event that would start after the run deadline has
\* passed is not processed: the batch holds no record of such an event.
C9_DeadlineStopsLoop ==
    \A k \in Recorded : trace[k].startedAt <= RunDeadline

\* C9 (amended): extract_detailed_info reads no run deadline: however much
\* time has passed before an event is started, the loop goes on through the
\* whole batch, the output holds a record of every event, and the run exits 0.
C9_NoDeadline ==
    /\ LoopDone => Len(detailed_events) = Len(events)
    /\ (LoopDone /\ pc = "done") => exitCode = 0

\* the second event starts after the deadline and is recorded; the run exits 0
C9_Witness ==
    /\ pc = "done" /\ exitCode = 0
    /\ LoopDone
    /\ Len(detailed_events) = 2
    /\ trace[2].startedAt > RunDeadline

\* C10 (as claimed): a login failure at the start of any stage leaves every
\* event unprocessed and makes the process exit with code 1.
C10_LoginFailureExits1 ==
    (stageResult.events = "login" \/ stageResult.info = "login") =>
        /\ detailed_events = <<>>
        /\ pc = "done" => exitCode = 1

\* C10 (amended): a login failure at the start of a stage leaves every event
\* unprocessed and makes the stage return None.  main exits with code 1 when
\* the stage is extract_events (modules events and all); a login failure of
\* extract_detailed_info (module info, or all after the events stage) is only
\* logged as a warning and the process exits with code 0.
C10_LoginFailure ==
    /\ (stageResult.events = "login" \/ stageResult.info = "login") =>
          /\ detailed_events = <<>>
          /\ trace = <<>>
          /\ pc \in {"main_end", "done"}
    /\ stageResult.events = "login" => (~success /\ stageResult.info = "")
    /\ (pc = "done" /\ stageResult.events = "login") => exitCode = 1
    /\ (pc = "done" /\ stageResult.info = "login") => exitCode = 0

\* module all: the events stage succeeds, the login of the info stage fails, exit 0
C10_Witness ==
    /\ pc = "done"
    /\ module = "all"
    /\ stageResult.events = "ok"
    /\ stageResult.info = "login"
    /\ exitCode = 0

\* the participants link of the event of record k
HasLink(k, link) == events[k].enlaces.valid /\ link \in events[k].enlaces.links

\* C11: every record of the output batch has a participant count, an integer
\* >= 0, whatever produced the record: 0 without a participants link, 0 when
\* the participants page raised, 0 when the whole event failed, the counter's
\* result otherwise.
C11_CountAlwaysPresent ==
    \A k \in Recorded :
        /\ "numero_participantes" \in DOMAIN detailed_events[k]
        /\ detailed_events[k].numero_participantes \in Nat
        /\ (trace[k].outerFailed \/ trace[k].partFailed \/ trace[k].counted = 0)
              => detailed_events[k].numero_participantes = 0

\* a batch whose first event failed as a whole and whose second was counted 2
C11_Witness ==
    /\ Len(detailed_events) = 2
    /\ trace[1].outerFailed
    /\ detailed_events[1].numero_participantes = 0
    /\ trace[2].counted = 1
    /\ detailed_events[2].numero_participantes = 2

----------------------------------------------------------------------------
(* More properties of the counter *)

\* no selector whose query succeeds yields an identifier
IdentifierScanFails == BookingIds(page, plan) = {}

\* the table query raises, or no table has a recognized header over more
\* than one row or between 5 and 500 rows
TableFallbackFails ==
    \/ plan.table
    \/ \A k \in 1..Len(page.tables) :
          ~(/\ page.tables[k].rows > 1
            /\ (RecognizedHeader(page.tables[k])
                \/ (5 <= page.tables[k].rows /\ page.tables[k].rows <= 500)))

\* the body query raises, or no pattern has a leftmost match within the bound
TextFallbackFails ==
    \/ plan.text
    \/ LET txt == Lower(page.body)
       IN  /\ ~InBound(SearchNumWord(txt, {"participante", "participantes"}, 1))
           /\ ~InBound(SearchNumWord(txt, {"inscrito", "inscritos"}, 1))
           /\ ~InBound(SearchNumWord(txt, {"competidor", "competidores"}, 1))
           /\ ~InBound(SearchTotal(txt, 1))

\* C12: the counter always returns a count, never an error; when the
\* identifier scan, the table fallback and the text fallback all fail, be it
\* by finding nothing or by raising, it returns 0.
C12_ZeroWhenAllFail ==
    Counted =>
        /\ num_participants \in Nat
        /\ via \in {"ids", "table", "text", "none"}
        /\ (IdentifierScanFails /\ TableFallbackFails /\ TextFallbackFails)
              => (num_participants = 0 /\ via = "none")

\* the table and body queries raise on a page whose table and text would count
C12_Witness ==
    /\ Counted
    /\ plan.table /\ plan.text
    /\ page.nodes = <<>>
    /\ Len(page.tables) = 1 /\ page.tables[1].rows = 6
    /\ page.body = <<"Total:", " ", "1", "2", " ", "inscritos">>
    /\ num_participants = 0

----------------------------------------------------------------------------
(* More properties of the event loop *)

\* the page shows an empty-state text and no identifier, table or number
EmptyStatePage(pg) ==
    /\ pg.body = <<"no", " ", "hay", " ", "participantes">>
    /\ pg.nodes = <<>>
    /\ pg.tables = <<>>

\* the counter has just returned for the event in process
JustCounted == pc = "finish" /\ cur.counted = 1

\* C13: a participants page with an empty-state text and no other signal
\* gives count 0 and the status 'Sin participantes'; so does any page on
\* which the counter returns 0, ready or not: the record does not tell the
\* two apart.
C13_EmptyStateIsSinParticipantes ==
    /\ JustCounted =>
          /\ EmptyStatePage(page) =>
                /\ num_participants = 0
                /\ detailed_event.numero_participantes = 0
                /\ detailed_event.participantes_info = SinParticipantes
          /\ num_participants = 0 =>
                /\ detailed_event.numero_participantes = 0
                /\ detailed_event.participantes_info = SinParticipantes
    /\ \A k \in Recorded :
          (trace[k].counted = 1 /\ detailed_events[k].numero_participantes = 0)
              => detailed_events[k].participantes_info = SinParticipantes

\* a hydrated page that says "no hay participantes": 0, 'Sin participantes'
C13_Witness ==
    /\ JustCounted
    /\ EmptyStatePage(page)
    /\ ~cur.waitTimedOut
    /\ plan = NoFailure
    /\ detailed_event.numero_participantes = 0
    /\ detailed_event.participantes_info = SinParticipantes

\* C14: a failure while fetching or parsing the info page of an event is not
\* fatal: the participants link of the same event, when it has one, is still
\* navigated to and counted (unless that navigation raises in its turn), and
\* the record is appended with procesado_info false.
C14_InfoFailureNotFatal ==
    /\ \A k \in Recorded :
          trace[k].infoFailed =>
              /\ ~trace[k].outerFailed
              /\ detailed_events[k].procesado_info = FALSE
              /\ HasLink(k, "participantes") =>
                    /\ trace[k].navs >= 1
                    /\ trace[k].counted = 1 \/ trace[k].partFailed
              /\ (trace[k].counted = 1 /\ ~trace[k].counterFailed /\ ~trace[k].countedOnLogin)
                    => detailed_events[k].numero_participantes = trace[k].registered
    /\ (pc = "finish" /\ cur.infoFailed /\ HasLink(i, "participantes"))
          => (cur.counted = 1 \/ cur.partFailed)

\* the info page of the first event fails; its participants page is counted 2
C14_Witness ==
    /\ Len(detailed_events) >= 1
    /\ trace[1].infoFailed
    /\ trace[1].counted = 1
    /\ detailed_events[1].numero_participantes = 2
    /\ detailed_events[1].participantes_info = NParticipantes(2)
    /\ detailed_events[1].procesado_info = FALSE

\* the event in process has navigated to its info or participants page
Navigated(t) == t.infoNavs + t.navs >= 1

\* C17: events are processed in the order of the batch and one at a time:
\* the output batch lists the events in input order; within an event the info
\* page is navigated to before the participants page; and an event navigates
\* only once the records of all events before it have been appended.
C17_InOrderOneAtATime ==
    /\ Len(detailed_events) <= Len(events)
    /\ \A k \in Recorded : detailed_events[k].id = events[k].id
    /\ \A k \in 1..Len(trace) :
          (trace[k].navs >= 1 /\ HasLink(k, "info")) => trace[k].infoNavs = 1
    /\ pc = "loop" => cur = NoCur
    /\ Navigated(cur) =>
          /\ pc \in {"participants", "relogin", "count", "finish"}
          /\ i <= Len(events)
          /\ Len(detailed_events) = i - 1
          /\ Len(trace) = i - 1
          /\ (cur.navs >= 1 /\ HasLink(i, "info")) => cur.infoNavs = 1

\* two events, each with an info and a participants navigation, recorded in order
C17_Witness ==
    /\ Len(detailed_events) = 2
    /\ detailed_events[1].id = events[1].id
    /\ detailed_events[2].id = events[2].id
    /\ events[1].id # events[2].id
    /\ trace[1].infoNavs = 1 /\ trace[1].navs >= 1
    /\ trace[2].infoNavs = 1 /\ trace[2].navs >= 1

\* what happened to every event, the one in process included
AllEvents == { trace[k] : k \in 1..Len(trace) } \cup {cur}

\* C20 (as claimed): the readiness waits of an event are clamped to what is
\* left of the per-event budget, so that the time spent waiting on the pages
\* of one event never exceeds the per-event budget.
C20_WaitsWithinEventBudget ==
    \A t \in AllEvents : t.waited <= EventBudget

\* C20 (amended): there is no per-event budget: an event calls
\* _wait_liveview_ready at most three times (after the first navigation,
\* after the navigation that follows a re-login, inside the counter), each
\* time with hard_timeout = 25 whatever time the event has taken already; a
\* wait on a page that never hydrates runs its 25 s in full, and the waits of
\* one event can add up to 75 s.
C20_FixedTimeoutPerWait ==
    \A t \in AllEvents :
        /\ t.waits <= 3
        /\ t.timeouts <= t.waits
        /\ t.waited >= HardTimeout * t.timeouts
        /\ t.waited <= HardTimeout * t.waits
        /\ t.waits = 3 => (t.relogins = 1 /\ ~t.reloginFailed /\ t.counted = 1)

\* login redirect, re-login, a page that never hydrates, the counter: 3 x 25 s
C20_Witness ==
    /\ Len(trace) >= 1
    /\ trace[1].waits = 3
    /\ trace[1].timeouts = 3
    /\ trace[1].waited = 3 * HardTimeout
    /\ trace[1].waited > EventBudget

----------------------------------------------------------------------------
(* Properties of the readiness wait *)

Waited == pc = "waited"

\* the page says that there are no participants
EmptyStateText(pg) ==
    \E k \in 1..Len(pg.body) - 4 :
        SubSeq(pg.body, k, k + 4) = <<"no", " ", "hay", " ", "participantes">>

\* the html class names phx-connected
ClassConnected(pg) ==
    /\ pg.htmlClass # Absent
    /\ \E k \in 1..Len(pg.htmlClass) : pg.htmlClass[k] = "phx-connected"

\* a hydration marker shows: html.phx-connected or an element [data-phx-root]
HydrationMarker(pg) == ClassConnected(pg) \/ pg.phxRoot

\* the outcome of the wait in the words of the design
Outcome == IF ready THEN "ok" ELSE "timeout"

\* C18 (as claimed): for a page with an empty-state text that never shows a
\* hydration marker the readiness check resolves to 'empty' within the
\* timeout, not to 'timeout'.
C18_EmptyWithoutHydration ==
    (Waited /\ EmptyStateText(page) /\ ~HydrationMarker(page)) =>
        (Outcome = "empty" /\ clock <= HardTimeout)

\* C18 (amended): _wait_liveview_ready has no 'empty' outcome and does not
\* read the page text: for a page with an empty-state text that never shows
\* a hydration marker it returns False, its not-ready outcome, as for any
\* other page without a marker; it returns True exactly when the class of
\* the html element can be read and html.phx-connected or an element
\* [data-phx-root] shows.
C18_TextPlaysNoRole ==
    Waited =>
        /\ (EmptyStateText(page) /\ ~HydrationMarker(page)) => ~ready
        /\ ready <=> (page.htmlClass # Absent /\ HydrationMarker(page))

\* "no hay participantes" on a page that never hydrates: not ready after 25 s
C18_Witness ==
    /\ Waited
    /\ EmptyStateText(page)
    /\ page.htmlClass = <<"h-full">> /\ ~page.phxRoot
    /\ ~ready
    /\ clock = HardTimeout

----------------------------------------------------------------------------
(* Properties of the records, for both scripts *)

BetaScript == pc = "beta_loop"

\* the stored value is a value of its own: not empty, not the placeholder
Populated(v) == v \notin {"", "N/D", AbsentField}

\* C15: the info stage never overwrites a populated field: club and lugar of
\* a record equal the stored values whenever those are neither empty nor
\* 'N/D'; they differ from the stored values only when those were empty,
\* missing or 'N/D'; id, nombre, fechas, organizacion, enlaces and
\* pais_bandera are as stored (a key the stored event lacks reads '').
C15_PopulatedFieldsKept ==
    \A k \in Recorded :
        /\ \A f \in {"club", "lugar"} :
              /\ Populated(events[k][f]) => detailed_events[k][f] = events[k][f]
              /\ Get(detailed_events[k], f) # Get(events[k], f)
                    => /\ ~Populated(events[k][f])
                       /\ trace[k].infoNavs = 1
                       /\ Populated(detailed_events[k][f])
        /\ \A f \in {"id", "nombre", "fechas", "organizacion", "pais_bandera"} :
              Get(detailed_events[k], f) = Get(events[k], f)
        /\ detailed_events[k].enlaces = events[k].enlaces

\* a placeholder club is replaced from the info page, the populated lugar is kept
C15_Witness ==
    /\ Len(detailed_events) = 1
    /\ events[1].club = "N/D"
    /\ events[1].lugar = "Sevilla / España"
    /\ events[1].organizacion = AbsentField
    /\ detailed_events[1].club = "Club Agility Madrid"
    /\ detailed_events[1].lugar = "Sevilla / España"

HasField(r, f) == f \in DOMAIN r

\* C16 (as claimed): every record of the output batch of the detailed-info
\* stage carries a timestamp and an info-processed flag, whatever the outcome.
C16_TimestampAndFlagAlways ==
    \A k \in Recorded :
        /\ HasField(detailed_events[k], "timestamp_extraccion")
        /\ HasField(detailed_events[k], "procesado_info")

\* C16 (amended): in EventosProxBeta.py every record of the output batch
\* carries a timestamp and the flag procesado_info, whatever the outcome:
\* with or without info link, on info failure, on participants failure and on
\* whole-event failure; the flag is true exactly when the info page was
\* processed without error.  In extraerParticipantesEventosProxBeta.py no
\* record carries the flag, and a record carries a timestamp only when its
\* info page was processed without error.
C16_TimestampAndFlagInBeta ==
    \A k \in Recorded :
        /\ BetaScript =>
              /\ HasField(detailed_events[k], "timestamp_extraccion")
              /\ HasField(detailed_events[k], "procesado_info")
              /\ detailed_events[k].procesado_info
                    = (trace[k].infoNavs = 1 /\ ~trace[k].infoFailed)
        /\ ~BetaScript =>
              /\ ~HasField(detailed_events[k], "procesado_info")
              /\ HasField(detailed_events[k], "timestamp_extraccion")
                    <=> (trace[k].infoNavs = 1 /\ ~trace[k].infoFailed)

\* EventosProxBeta.py, an event that fails as a whole: timestamp and flag are there
C16_Witness ==
    /\ BetaScript
    /\ Len(detailed_events) = 1
    /\ trace[1].outerFailed
    /\ HasField(detailed_events[1], "timestamp_extraccion")
    /\ detailed_events[1].procesado_info = FALSE

----------------------------------------------------------------------------
(* C23 *)

\* positions of the driver calls of one kind in the log of the last counter call
OpsOf(kind) == { k \in 1..Len(ops) : ops[k] = kind }

\* driver calls that only read the page
ReadingOps == {"wait", "select", "tables", "body"}

\* C23: the counter changes the page only by scrolling: it issues at most two
\* scroll scripts, every one of them before the first selector query of the
\* identifier scan, and every other call it issues only reads the page (no
\* click, no form submission, no navigation).
C23_OnlyScrollsBeforeScan ==
    Counted =>
        /\ Cardinality(OpsOf("scroll")) <= 2
        /\ \A a \in OpsOf("scroll") :
             \A b \in OpsOf("select") \cup OpsOf("tables") \cup OpsOf("body") : a < b
        /\ \A k \in 1..Len(ops) : ops[k] \in ReadingOps \cup {"scroll"}
        /\ scrolls <= Cardinality(OpsOf("scroll"))

\* a counter call that made both scrolls and then scanned the five selectors
\* and both fallbacks
C23_Witness ==
    /\ Counted
    /\ Cardinality(OpsOf("scroll")) = 2
    /\ scrolls = 2
    /\ Cardinality(OpsOf("select")) = 5
    /\ OpsOf("body") # {}
    /\ via = "text"

----------------------------------------------------------------------------
(* C26 *)

\* a table the table fallback returns from: more than one row, and a header
\* keyword in the first row or a plausible number of rows
Yields(t) == t.rows > 1 /\ (RecognizedHeader(t) \/ (5 <= t.rows /\ t.rows <= 500))

\* C26: in the table fallback a table whose first row has no header keyword
\* yields a count only when it has 5 to 500 rows, and the count is rows - 1; a
\* table that does not yield is skipped and the tables after it are still
\* examined, so the first yielding table decides; the text fallback returns
\* no value outside 0..2000.
C26_GuardRails ==
    Counted =>
        /\ via = "table" =>
             \E k \in 1..Len(page.tables) :
                /\ Yields(page.tables[k])
                /\ \A j \in 1..(k - 1) : ~Yields(page.tables[j])
                /\ num_participants = page.tables[k].rows - 1
                /\ ~RecognizedHeader(page.tables[k]) =>
                     (5 <= page.tables[k].rows /\ page.tables[k].rows <= 500)
        /\ (via \in {"text", "none"} /\ ~plan.table) =>
             \A k \in 1..Len(page.tables) : ~Yields(page.tables[k])
        /\ via = "text" => (0 <= num_participants /\ num_participants <= 2000)

\* a table of 501 rows without header keyword is skipped and the next one, of
\* 5 rows and without header keyword, gives 4
C26_Witness ==
    /\ Counted
    /\ via = "table"
    /\ Len(page.tables) = 2
    /\ page.tables[1].rows = 501
    /\ ~RecognizedHeader(page.tables[1])
    /\ page.tables[2].rows = 5
    /\ ~RecognizedHeader(page.tables[2])
    /\ num_participants = 4

----------------------------------------------------------------------------
(* C30 *)

\* the element is one a selector of the list asks for
FoundBy(sel, el) ==
    CASE sel = 1 -> el.bid # Absent
      [] sel = 2 -> el.dbid # Absent
      [] sel = 3 -> el.click = BookingDetails
      [] sel = 4 -> el.dclick # Absent /\ HasAtom(el.dclick, "booking_details")
      [] sel = 5 -> el.id # Absent /\ el.id # <<>> /\ Head(el.id) = "booking-"

\* identifiers of the elements found by the selectors whose query did not fail
IdsOfWorkingSelectors ==
    { SearchDigits3(RawIdentifier(page.nodes[k]), 1) :
        k \in { n \in 1..Len(page.nodes) :
                  \E sel \in (1..5) \ plan.sels : FoundBy(sel, page.nodes[n]) } }
    \ {NoMatch}

\* C30: in the identifier scan a failure while querying one selector is
\* isolated to that selector: the other selectors are still queried, what they
\* find is kept, and the count returned is the number of distinct identifiers
\* found by the selectors that did not fail.
C30_SelectorFailureIsolated ==
    (Counted /\ plan.sels # {}) =>
        /\ IdsOfWorkingSelectors # {} =>
             (via = "ids" /\ num_participants = Cardinality(IdsOfWorkingSelectors))
        /\ IdsOfWorkingSelectors = {} => via # "ids"

\* two identifiers on the page, one of them behind a failing selector only, the
\* other found by a selector queried after the failure
C30_Witness ==
    /\ Counted
    /\ plan.sels = {1, 5}
    /\ Cardinality(DigitIdentifiers(page)) = 2
    /\ via = "ids"
    /\ num_participants = 1

----------------------------------------------------------------------------
(* C25 *)

----------------------------------------------------------------------------
(* C28 *)

\* C28: in every record extract_detailed_info appends, count and status
\* agree: numero_participantes is n > 0 exactly when participantes_info is
\* "<n> participantes", and it is 0 whenever participantes_info is
\* 'No disponible', 'Sin participantes' or an 'Error: ...' text.
C28_CountAndStatusAgree ==
    \A k \in 1..Len(detailed_events) :
        LET r == detailed_events[k]
        IN  /\ r.numero_participantes > 0 <=> r.participantes_info.kind = "participantes"
            /\ r.participantes_info.kind = "participantes" =>
                 r.participantes_info.n = r.numero_participantes
            /\ r.participantes_info.kind \in {"No disponible", "Sin participantes", "Error"} =>
                 r.numero_participantes = 0

\* a batch with a counted event and an event whose page showed no participants
C28_Witness ==
    /\ LoopDone
    /\ \E k \in 1..Len(detailed_events) :
         /\ detailed_events[k].numero_participantes = 2
         /\ detailed_events[k].participantes_info = [kind |-> "participantes", n |-> 2]
    /\ \E k \in 1..Len(detailed_events) :
         /\ detailed_events[k].participantes_info.kind = "Sin participantes"
         /\ detailed_events[k].numero_participantes = 0

----------------------------------------------------------------------------
(* C27 *)

\* C27 (as claimed): when main of EventosProxBeta.py is run with --module info
\* after an earlier run has written 01events_<date>.json, the cleanup at the
\* start of main does not remove the events file, and the events the earlier
\* run stored are the ones processed.
C27_CleanupKeepsEventsFile ==
    [][(pc = "main" /\ module = "info" /\ files.events01) =>
          (files'.events01 /\ files'.stored = files.stored)]_vars

----------------------------------------------------------------------------
(* C29 *)

\* driver operations made so far for the event in process
PageOps(c) == c.navs + c.infoNavs + c.relogins + c.counted

\* C29: once extract_events or extract_detailed_info has created a driver, the
\* driver is quit exactly once before the function returns, whether it returns
\* the batch, fails at login or fails while writing the output; no page
\* operation is issued on a driver that has been quit.
C29_DriverQuitOnce ==
    /\ [](/\ driver.quits <= driver.created
          /\ driver.open <=> driver.created = driver.quits + 1
          /\ ~driver.open => driver.created = driver.quits
          /\ pc \in {"main_end", "done"} => ~driver.open)
    /\ [][PageOps(cur') > PageOps(cur) => (driver.open /\ driver'.open)]_vars

\* a run of both stages in which the pages of two events were visited and the
\* writing of the output failed: two drivers created, two quit
C29_Witness ==
    /\ pc = "done"
    /\ stageResult.events = "ok"
    /\ stageResult.info = "error"
    /\ driver = Driver(FALSE, 2, 2)
    /\ Len(trace) = 2
    /\ \A k \in 1..Len(trace) : PageOps(trace[k]) > 0

----------------------------------------------------------------------------
(* C24 *)

\* characters str.strip is asked to remove, and the two blanks of the regex
StripCharacters == {" ", "\t", "\r", "\n", "-", "bullet", "*", "middle-dot", ":", ";"}

\* C24: _clean is total and idempotent: an empty or absent argument gives ""
\* and never an error, the value returned is a text that neither starts nor
\* ends with a character of the strip set (blank, tab, line ends, dash,
\* bullet, asterisk, middle dot, colon, semicolon) and holds no run of two or
\* more blanks or tabs, and _clean of a value _clean returned is that value.
C24_CleanIdempotentTotal ==
    /\ pc \in {"cleaned", "cleaned_twice"} =>
         /\ clean_result \in Seq(CleanAlphabet \cup {":"})
         /\ clean_result # <<>> =>
              /\ Head(clean_result) \notin StripCharacters
              /\ clean_result[Len(clean_result)] \notin StripCharacters
         /\ \A k \in 1..(Len(clean_result) - 1) :
              ~(clean_result[k] \in {" ", "\t"} /\ clean_result[k + 1] \in {" ", "\t"})
    /\ (pc = "cleaned" /\ clean_arg \in {Absent, <<>>}) => clean_result = <<>>
    /\ pc = "cleaned_twice" => clean_result = clean_arg

\* the second call on a text the first call returned, with a blank inside
C24_Witness ==
    /\ pc = "cleaned_twice"
    /\ clean_arg = <<"a", " ", "a">>
    /\ clean_result = <<"a", " ", "a">>

----------------------------------------------------------------------------
(* C22 *)

\* the side file an event's participants go to: named after its id, or
\* "unknown" when the event has none
ExpectedName(ev) == IF ev.id = AbsentField THEN "unknown" ELSE ev.id

\* participants of the events handled so far, in event order; with
\* onlyWritten, of those whose side file was written
RECURSIVE FoundUpTo(_, _)
FoundUpTo(k, onlyWritten) ==
    IF k = 0 THEN <<>>
    ELSE FoundUpTo(k - 1, onlyWritten)
         \o (IF onlyWritten /\ ~trace[k].written THEN <<>> ELSE trace[k].found)

\* events handled so far whose side file has the name and was written
WrittenTo(name) ==
    { k \in 1..Len(trace) : trace[k].written /\ ExpectedName(events[k]) = name }

Max(S) == CHOOSE m \in S : \A n \in S : n <= m

ParticipantsReturned == pc = "participants_done" /\ stageResult.info = "ok"

----------------------------------------------------------------------------
(* C21 *)

StageOrder == <<"events", "info", "participants", "csv", "final">>

\* stages a selector stands for
SelectedBy(sel) ==
    IF sel = "all" THEN {"events", "info", "participants", "csv", "final"} ELSE {sel}

IsSelected(sel, st) == st \in SelectedBy(sel)

\* the stages of a selector, in the fixed order
ChosenStages(sel) == SelectSeq(StageOrder, LAMBDA st : IsSelected(sel, st))

\* the same for one script: EventosProxBeta.py has the first two stages only
ChosenIn(sc, sel) ==
    SelectSeq(StageOrder,
              LAMBDA st : /\ IsSelected(sel, st)
                          /\ sc = "EventosProxBeta.py" => st \in {"events", "info"})

AcceptedBy(sc) ==
    IF sc = "EventosProxBeta.py" THEN {"events", "info", "all"}
    ELSE {"events", "info", "participants", "csv", "all"}

IsPrefix(a, b) == Len(a) <= Len(b) /\ SubSeq(b, 1, Len(a)) = a

\* stages run, in order: all of them, and those main called itself
StagesRun == [k \in 1..Len(trace) |-> trace[k].stage]

ByMain(c) == c.by = "main"

MainStages == [k \in 1..Len(SelectSeq(trace, ByMain)) |-> SelectSeq(trace, ByMain)[k].stage]

\* a stage failure that aborts the run: an error that escapes the stage
\* function, or a falsy result of the events stage or of the final document
Aborting(c) == c.outcome = "raises" \/ (c.stage \in {"events", "final"} /\ c.outcome = "failed")

Aborted == \E k \in 1..Len(trace) : Aborting(trace[k])

\* C21 (as claimed): main runs exactly the stages chosen by the selector
\* (events | info | participants | csv | all), in the order events, info,
\* participants, csv, final document; it exits 0 when no stage failure aborted
\* the run and 1 when one did, and after an aborting failure no later stage is
\* executed.
C21_ExactlyChosenStages ==
    pc = "done" =>
        /\ exitCode \in {0, 1}
        /\ IsPrefix(StagesRun, ChosenStages(module))
        /\ ~Aborted => (StagesRun = ChosenStages(module) /\ exitCode = 0)
        /\ Aborted => (exitCode = 1 /\ Aborting(trace[Len(trace)]))

\* C21 (amended): main calls exactly the stages of the selector, in the fixed
\* order, up to the first aborting failure (an error escaping a stage
\* function, a falsy result of the events stage or of the final document); it
\* exits 1 after such a failure, with no later stage executed, and 0
\* otherwise, a falsy result of the info, participants or csv stage being
\* only logged.  EventosProxBeta.py has the selectors events, info and all and
\* the stages events and info; any other selector ends the process with code
\* 2 before any stage.  In extraerParticipantesEventosProxBeta.py the
\* participants stage that has collected participants generates the CSV
\* itself, whatever the selector.
C21_StagesOfMain ==
    pc = "done" =>
        IF module \notin AcceptedBy(script)
        THEN exitCode = 2 /\ trace = <<>>
        ELSE /\ exitCode \in {0, 1}
             /\ IsPrefix(MainStages, ChosenIn(script, module))
             /\ ~Aborted => (MainStages = ChosenIn(script, module) /\ exitCode = 0)
             /\ Aborted => (exitCode = 1 /\ Aborting(trace[Len(trace)]))
             /\ \A k \in 1..Len(trace) :
                  /\ ~ByMain(trace[k]) =>
                       /\ trace[k].stage = "csv"
                       /\ k > 1
                       /\ trace[k - 1] = Call("participants", "found", "main")
                  /\ trace[k] = Call("participants", "found", "main") =>
                       (k < Len(trace) /\ ~ByMain(trace[k + 1]))

\* a run of all stages in which the info stage gave nothing and the
\* participants stage generated the CSV before the csv stage did
C21_Witness ==
    /\ pc = "done"
    /\ script = "extraerParticipantesEventosProxBeta.py"
    /\ module = "all"
    /\ exitCode = 0
    /\ StagesRun = <<"events", "info", "participants", "csv", "csv", "final">>
    /\ trace[2].outcome = "failed"
    /\ ~ByMain(trace[4])

====
